---- MODULE Spec2Model ----
(***************************************************************************)
(* A model of gazer.js (class Gazer): the configuration surface (presets,  *)
(* constructor merge, clamping setters, updateSettings), the session       *)
(* life cycle (async start()/stop(), the rollup timer), and the per-frame  *)
(* callbacks (onFrame, onFaceDetectionResults, onFaceMeshResults); and of  *)
(* face-detector.js (class FaceDetector): its detection loop, pose         *)
(* smoother and stop().                                                    *)
(*                                                                         *)
(* Numbers.  Times are Date.now() milliseconds.  Thresholds and landmark   *)
(* coordinates are fixed-point thousandths (0.3 is 300).  A raw value      *)
(* handed to a setter is a fixed-point thousandth too (12.7 is 12700), or  *)
(* NaN for anything parseInt/parseFloat cannot read.                       *)
(***************************************************************************)
EXTENDS Integers, Sequences, FiniteSets, TLC

VARIABLES
  config,   \* this.config
  g,        \* the other fields of the Gazer instance (this.*)
  now,      \* Date.now()
  cams,     \* the Camera objects created by start(), by id (1..Len(cams))
  timers,   \* the live setInterval handles
  emit,     \* the callbacks the last operation fired
  frames,   \* history: the frames onFrame has accepted so far
  quiet,    \* history: a stop() has returned and start() was not called since
  opts,     \* history: the options the constructor was given
  arg,      \* history: the settings object of the last updateSettings call
  obs,      \* history: what the frame callbacks were given and reported
  lastEv,   \* history: the last operation that ran
  fd        \* the FaceDetector instance of face-detector.js, its pending
            \* animation frames and the events its last operation dispatched

vars ==
  <<config, g, now, cams, timers, emit, frames, quiet, opts, arg, obs, lastEv,
    fd>>

----------------------------------------------------------------------------
(* Bounds of the model.                                                    *)

\* Entries in one settings object handed to updateSettings.
MaxKeys == 2

\* Cameras created in the session specification, that is start() calls that
\* pass the readiness check.
MaxStarts == 1

\* Cameras created in the restart specification.
MaxRestarts == 2

\* stop() calls suspended at `await this.camera.stop()` on one camera.
MaxPending == 1

\* Frames the cameras hand to the models in the session and restart
\* specifications.
MaxFrames == 1

\* Frames the camera hands to the models in the frame-rate specification.
MaxRateFrames == 2

\* Faces in one detection result.
MaxFaces == 1

\* Milliseconds of clock the session and restart specifications run for,
\* in steps of a second.
MaxTime == 1000

\* Clock steps the frame-rate specification runs for.
MaxFine == 2

\* The step, in ms, of the clock of the frame-rate specification.
FineStep == 100

\* Frames the camera hands to the models in the presence specification.
MaxFaceFrames == 3

\* Faces in one detection result of the presence specification.
MaxCount == 3

\* Milliseconds of clock the presence specification runs for, in steps of a
\* second: past the default idleTimeout.
MaxIdleTime == 4000

\* Frames the camera hands to the models in the gaze specification.
MaxGazeFrames == 3

\* Milliseconds of clock the gaze specification runs for, in steps of a
\* second.
MaxGazeTime == 3000

\* Frames the camera hands to the models in the window specification.
MaxWindowFrames == 4

\* Milliseconds of clock the window specification runs for, in steps of a
\* second.
MaxWindowTime == 3000

\* Landmark results delivered in the smoothing specification.
MaxSamples == 5

\* The largest gazeHistorySize of the smoothing specification.
MaxWindow == 3

\* Frames the camera hands to the models in the frame-skip specification.
MaxSkipFrames == 2

\* Milliseconds of clock the frame-skip specification runs for, in steps of
\* half a second.
MaxSkipTime == 2000

\* init() calls, detection passes and faces in one frame in the
\* FaceDetector specification.
MaxInits == 2

MaxPasses == 3

MaxPeople == 2

\* Cameras created and frames accepted in the overlap specification.
MaxOverlapStarts == 2

MaxOverlapFrames == 2

\* Milliseconds of clock the overlap specification runs for, in steps of
\* half a second.
MaxOverlapTime == 1000

\* Landmark results delivered in the no-landmarks specification.
MaxUnknownResults == 3

\* Milliseconds of clock the no-landmarks specification runs for, in steps
\* of a second.
MaxUnknownTime == 2000

\* Cameras created in the timer specification.
MaxTimerStarts == 2

\* Detection results and landmark results delivered in the rollup
\* specification.
MaxRollupDetections == 2

MaxRollupResults == 1

\* Milliseconds of clock the rollup specification runs for, in steps of a
\* second.
MaxRollupTime == 1000

\* Detection results and landmark results delivered in the idle
\* specification.
MaxIdleDetections == 3

MaxIdleResults == 1

\* Milliseconds of clock the idle specification runs for, in steps of two
\* seconds: past the default idleTimeout.
MaxIdleClock == 4000

\* Landmark results delivered in the direction specification.
MaxDirections == 2

\* Date.now() when the instance is constructed.
Epoch == 100000

----------------------------------------------------------------------------
(* JavaScript values.                                                      *)

\* null / a cleared reference, for the string-valued fields.
Null == "null"

\* null for the open-interval start timestamps (no interval open).
NoTime == -1

\* The lastFaceCount sentinel: no frame accepted yet.
NoFaceCount == -1

\* NaN, the result of parseInt/parseFloat on a value that is not numeric.
NaN == -1000000

IsNaN(x) == x = NaN

Abs(x) == IF x < 0 THEN -x ELSE x

\* parseInt(v): NaN for a non-numeric value, else v truncated toward zero.
ParseInt(v) ==
  IF IsNaN(v) THEN NaN
  ELSE IF v >= 0 THEN v \div 1000 ELSE -((-v) \div 1000)

\* parseFloat(v): NaN for a non-numeric value, else the number itself.
ParseFloat(v) == IF IsNaN(v) THEN NaN ELSE v

\* Math.min / Math.max: NaN if either argument is NaN.
MathMin(a, b) == IF IsNaN(a) \/ IsNaN(b) THEN NaN ELSE IF a < b THEN a ELSE b

MathMax(a, b) == IF IsNaN(a) \/ IsNaN(b) THEN NaN ELSE IF a > b THEN a ELSE b

\* a > b on numbers: false when either side is NaN.
Gt(a, b) == ~IsNaN(a) /\ ~IsNaN(b) /\ a > b

\* a >= b on numbers: false when either side is NaN.
Ge(a, b) == ~IsNaN(a) /\ ~IsNaN(b) /\ a >= b

\* a <= b on numbers: false when either side is NaN.
Le(a, b) == ~IsNaN(a) /\ ~IsNaN(b) /\ a <= b

----------------------------------------------------------------------------
(* Presets and the default configuration.                                  *)

performancePresets ==
  [low    |-> [targetFps |-> 10, frameSkip |-> 3, pauseOnIdle |-> TRUE,
               reducedCanvas |-> TRUE],
   medium |-> [targetFps |-> 15, frameSkip |-> 2, pauseOnIdle |-> TRUE,
               reducedCanvas |-> FALSE],
   high   |-> [targetFps |-> 25, frameSkip |-> 1, pauseOnIdle |-> FALSE,
               reducedCanvas |-> FALSE]]

sensitivityPresets ==
  [strict  |-> [horizontalThreshold |-> 200, verticalThreshold |-> 100,
                gazeHistorySize |-> 3],
   medium  |-> [horizontalThreshold |-> 300, verticalThreshold |-> 150,
                gazeHistorySize |-> 5],
   relaxed |-> [horizontalThreshold |-> 500, verticalThreshold |-> 250,
                gazeHistorySize |-> 7]]

PerformanceModes == DOMAIN performancePresets

SensitivityModes == DOMAIN sensitivityPresets

PerformanceFields == {"targetFps", "frameSkip", "pauseOnIdle", "reducedCanvas"}

SensitivityFields ==
  {"horizontalThreshold", "verticalThreshold", "gazeHistorySize"}

\* The defaults of the constructor, before ...options is spread over them.
\* onPostTrackingData is TRUE when a consumer function is set.
DefaultConfig ==
  [performanceMode |-> "medium", sensitivityMode |-> "medium",
   targetFps |-> 15, frameSkip |-> 1, pauseOnIdle |-> TRUE,
   reducedCanvas |-> FALSE, idleTimeout |-> 3000,
   horizontalThreshold |-> 300, verticalThreshold |-> 150,
   gazeHistorySize |-> 5, showFaceRectangle |-> TRUE,
   postTrackingDataInterval |-> 30, onPostTrackingData |-> FALSE,
   onError |-> FALSE]

ConfigKeys == DOMAIN DefaultConfig

----------------------------------------------------------------------------
(* The constructor.  An options object is [has, val]: `has` the keys it    *)
(* owns, `val` their values (a key it does not own carries the default).   *)

\* { ...defaults, ...options }
SpreadOptions(o) ==
  [k \in ConfigKeys |-> IF k \in o.has THEN o.val[k] ELSE DefaultConfig[k]]

applyPerformanceMode(c, userOptions) ==
  LET mode == c.performanceMode IN
  IF mode \in PerformanceModes
  THEN IF \E s \in PerformanceFields : s \in userOptions.has
       THEN c
       ELSE [c EXCEPT !.targetFps = performancePresets[mode].targetFps,
                      !.frameSkip = performancePresets[mode].frameSkip,
                      !.pauseOnIdle = performancePresets[mode].pauseOnIdle,
                      !.reducedCanvas = performancePresets[mode].reducedCanvas]
  ELSE c

applySensitivityMode(c, userOptions) ==
  LET mode == c.sensitivityMode IN
  IF mode \in SensitivityModes
  THEN IF \E s \in SensitivityFields : s \in userOptions.has
       THEN c
       ELSE [c EXCEPT
               !.horizontalThreshold =
                  sensitivityPresets[mode].horizontalThreshold,
               !.verticalThreshold = sensitivityPresets[mode].verticalThreshold,
               !.gazeHistorySize = sensitivityPresets[mode].gazeHistorySize]
  ELSE c

\* new Gazer(id, options): the configuration it ends with.
Construct(o) ==
  applySensitivityMode(applyPerformanceMode(SpreadOptions(o), o), o)

\* initializeState(), with isModelLoaded as initializeMediaPipe() left it.
InitialState(loaded, t) ==
  [camera |-> 0, isRunning |-> FALSE, isModelLoaded |-> loaded,
   isIdle |-> FALSE, resizeListener |-> FALSE,
   currentFaces |-> 0, lastFaceCount |-> NoFaceCount, lastGazeState |-> Null,
   gazeHistory |-> <<>>,
   faceCount |-> 0, awayStartTime |-> NoTime, totalAwayTime |-> 0,
   distractedStartTime |-> NoTime, totalDistractedTime |-> 0,
   faceCountChanges |-> 0,
   trackingDataTimer |-> 0, lastTrackingDataPost |-> t,
   frameCounter |-> 0, lastFrameTime |-> t, processingFps |-> 0,
   framesSkipped |-> 0, canvasUpdates |-> 0, lastIdleTime |-> t]

----------------------------------------------------------------------------
(* The live-control setters.  Each works on st = [config, g, emit]: the     *)
(* configuration, the instance fields and the callbacks fired so far.      *)

setFrameRate(st, fps) ==
  [st EXCEPT !.config.targetFps = MathMax(5, MathMin(30, ParseInt(fps)))]

setFrameSkip(st, skip) ==
  [st EXCEPT !.config.frameSkip = MathMax(1, MathMin(5, ParseInt(skip)))]

setPauseOnIdle(st, enabled) == [st EXCEPT !.config.pauseOnIdle = enabled]

setReducedCanvas(st, enabled) == [st EXCEPT !.config.reducedCanvas = enabled]

setHorizontalThreshold(st, threshold) ==
  [st EXCEPT !.config.horizontalThreshold =
               MathMax(100, MathMin(1000, ParseFloat(threshold)))]

setVerticalThreshold(st, threshold) ==
  [st EXCEPT !.config.verticalThreshold =
               MathMax(50, MathMin(500, ParseFloat(threshold)))]

setGazeHistorySize(st, size) ==
  [st EXCEPT !.config.gazeHistorySize = MathMax(2, MathMin(10, ParseInt(size))),
             !.g.gazeHistory = <<>>]

setShowFaceRectangle(st, enabled) ==
  [st EXCEPT !.config.showFaceRectangle = enabled]

\* A falsy mode is the empty string here.
setPerformanceMode(st, mode) ==
  IF mode = "" \/ mode = "manual"
  THEN [st EXCEPT !.config.performanceMode = Null]
  ELSE IF mode \notin PerformanceModes
  THEN st
  ELSE [st EXCEPT
          !.config.performanceMode = mode,
          !.config.targetFps = performancePresets[mode].targetFps,
          !.config.frameSkip = performancePresets[mode].frameSkip,
          !.config.pauseOnIdle = performancePresets[mode].pauseOnIdle,
          !.config.reducedCanvas = performancePresets[mode].reducedCanvas]

setSensitivityMode(st, mode) ==
  IF mode = "" \/ mode = "manual"
  THEN [st EXCEPT !.config.sensitivityMode = Null]
  ELSE IF mode \notin SensitivityModes
  THEN st
  ELSE [st EXCEPT
          !.config.sensitivityMode = mode,
          !.config.horizontalThreshold =
             sensitivityPresets[mode].horizontalThreshold,
          !.config.verticalThreshold =
             sensitivityPresets[mode].verticalThreshold,
          !.config.gazeHistorySize = sensitivityPresets[mode].gazeHistorySize]

\* updateConfig(newConfig): this.config = {...this.config, ...newConfig}.
updateConfig(st, newConfig) ==
  [st EXCEPT !.config =
     [k \in ConfigKeys |->
        IF k \in newConfig.has THEN newConfig.val[k] ELSE st.config[k]]]

\* One entry of a settings object: its key and its value, the value in the
\* field of its type (num, str or bool).
Setting(k, n, s, b) == [key |-> k, num |-> n, str |-> s, bool |-> b]

\* validSettings[key](settings[key]); an unrecognized key is skipped.
applySetting(st, p) ==
  CASE p.key = "performanceMode" -> setPerformanceMode(st, p.str)
    [] p.key = "sensitivityMode" -> setSensitivityMode(st, p.str)
    [] p.key = "targetFps" -> setFrameRate(st, p.num)
    [] p.key = "frameSkip" -> setFrameSkip(st, p.num)
    [] p.key = "pauseOnIdle" -> setPauseOnIdle(st, p.bool)
    [] p.key = "reducedCanvas" -> setReducedCanvas(st, p.bool)
    [] p.key = "horizontalThreshold" -> setHorizontalThreshold(st, p.num)
    [] p.key = "verticalThreshold" -> setVerticalThreshold(st, p.num)
    [] p.key = "gazeHistorySize" -> setGazeHistorySize(st, p.num)
    [] p.key = "showFaceRectangle" -> setShowFaceRectangle(st, p.bool)
    [] OTHER -> st

\* Object.keys(settings).forEach(...): the entries in the object's key order.
RECURSIVE updateSettings(_, _)
updateSettings(st, settings) ==
  IF settings = <<>> THEN st
  ELSE updateSettings(applySetting(st, Head(settings)), Tail(settings))

----------------------------------------------------------------------------
(* The geometric classifier.  A landmark set is [length, has, pt]: its     *)
(* number of entries, the anchor entries that are objects (the others are  *)
(* null or undefined), and the anchors' coordinates.                       *)

Anchors ==
  {"leftEyeOuter", "leftEyeInner", "rightEyeOuter", "rightEyeInner", "noseTip",
   "leftEyeTop", "leftEyeBottom", "rightEyeTop", "rightEyeBottom"}

\* calculateGazeDirection as it would be if an offset equal to its threshold
\* counted as away.
calculateGazeDirectionInclusive(landmarks, c) ==
  LET pt == landmarks.pt
      X == pt.leftEyeOuter.x + pt.leftEyeInner.x
             + pt.rightEyeOuter.x + pt.rightEyeInner.x
      D == (pt.rightEyeOuter.x + pt.rightEyeInner.x)
             - (pt.leftEyeOuter.x + pt.leftEyeInner.x)
      Y == pt.leftEyeTop.y + pt.leftEyeBottom.y
             + pt.rightEyeTop.y + pt.rightEyeBottom.y
      hAway == IF D = 0 THEN X # 2000
               ELSE Abs(X - 2000) * 1000 >= c.horizontalThreshold * 2 * Abs(D)
      vAway == Abs(Y - 1600) >= 4 * c.verticalThreshold
  IN [kind |-> "data",
      direction |-> IF hAway \/ vAway THEN "away" ELSE "screen"]

\* calculateGazeDirection(landmarks): [kind |-> "null"] for no sample,
\* [kind |-> "throw"] when a property of a missing anchor is read, else the
\* sample's direction.  With X the sum of the four corner x and D twice the
\* eye distance's signed value, horizontalGaze is (X - 2000) / (2 |D|); with
\* Y the sum of the four lid y, verticalGaze is (Y - 1600) / 4.
calculateGazeDirection(landmarks, c) ==
  IF landmarks.length < 468 THEN [kind |-> "null", direction |-> Null]
  ELSE IF {"leftEyeOuter", "rightEyeOuter", "noseTip"} \ landmarks.has # {}
  THEN [kind |-> "null", direction |-> Null]
  ELSE IF Anchors \ landmarks.has # {}
  THEN [kind |-> "throw", direction |-> Null]
  ELSE
    LET pt == landmarks.pt
        X == pt.leftEyeOuter.x + pt.leftEyeInner.x
               + pt.rightEyeOuter.x + pt.rightEyeInner.x
        D == (pt.rightEyeOuter.x + pt.rightEyeInner.x)
               - (pt.leftEyeOuter.x + pt.leftEyeInner.x)
        Y == pt.leftEyeTop.y + pt.leftEyeBottom.y
               + pt.rightEyeTop.y + pt.rightEyeBottom.y
        \* |horizontalGaze| > horizontalThreshold; x / 0 is +-Infinity, 0 / 0 NaN.
        hAway == /\ ~IsNaN(c.horizontalThreshold)
                 /\ IF D = 0 THEN X # 2000
                    ELSE Abs(X - 2000) * 1000
                           > c.horizontalThreshold * 2 * Abs(D)
        vAway == /\ ~IsNaN(c.verticalThreshold)
                 /\ Abs(Y - 1600) > 4 * c.verticalThreshold
    IN [kind |-> "data",
        direction |-> IF hAway THEN "away" ELSE IF vAway THEN "away"
                      ELSE "screen"]

----------------------------------------------------------------------------
(* The temporal smoother.                                                  *)

\* The keys of gazeCounts, in the order the reduce first met them.
RECURSIVE FirstSeen(_, _)
FirstSeen(hist, seen) ==
  IF hist = <<>> THEN seen
  ELSE FirstSeen(Tail(hist),
                 IF \E i \in 1..Len(seen) : seen[i] = Head(hist)
                 THEN seen ELSE Append(seen, Head(hist)))

Count(hist, v) == Cardinality({i \in 1..Len(hist) : hist[i] = v})

\* The reduce as it would be with its comparison turned round.
RECURSIVE ReduceMin(_, _, _)
ReduceMin(a, keys, hist) ==
  IF keys = <<>> THEN a
  ELSE ReduceMin(IF Count(hist, a) < Count(hist, Head(keys))
                 THEN a ELSE Head(keys),
                 Tail(keys), hist)

\* Object.keys(gazeCounts).reduce((a, b) => gazeCounts[a] > gazeCounts[b] ? a : b)
RECURSIVE ReduceMax(_, _, _)
ReduceMax(a, keys, hist) ==
  IF keys = <<>> THEN a
  ELSE ReduceMax(IF Count(hist, a) > Count(hist, Head(keys))
                 THEN a ELSE Head(keys),
                 Tail(keys), hist)

Resolve(hist) ==
  LET keys == FirstSeen(hist, <<>>) IN ReduceMax(Head(keys), Tail(keys), hist)

\* The push of smoothGazeDetection as it would be if a full history dropped
\* its newest entry instead of its oldest.
PushGazeKeepingOldest(hist, direction, size) ==
  LET pushed == Append(hist, direction) IN
  IF Gt(Len(pushed), size) THEN SubSeq(pushed, 1, Len(pushed) - 1) ELSE pushed

\* The history after the push and the shift of smoothGazeDetection.
PushGaze(hist, direction, size) ==
  LET pushed == Append(hist, direction) IN
  IF Gt(Len(pushed), size) THEN Tail(pushed) ELSE pushed

----------------------------------------------------------------------------
(* The per-frame callbacks, as functions of st = [config, g, emit] and the *)
(* time t that Date.now() returns while they run.                          *)

\* updateGazeStatus as it would be if it called onGazeChange on every report.
updateGazeStatusAlways(st, gazeState, t) ==
  LET isDistracted == gazeState = "away"
      open == st.g.distractedStartTime # NoTime
  IN [st EXCEPT
        !.g.lastGazeState = gazeState,
        !.emit = @ \cup {"onGazeChange"},
        !.g.distractedStartTime =
           IF isDistracted /\ ~open THEN t
           ELSE IF ~isDistracted /\ open THEN NoTime ELSE @,
        !.g.totalDistractedTime =
           IF ~isDistracted /\ open
           THEN @ + (t - st.g.distractedStartTime) ELSE @]

\* updateGazeStatus(gazeState, gazeData)
updateGazeStatus(st, gazeState, t) ==
  LET changed == gazeState # st.g.lastGazeState
      isDistracted == gazeState = "away"
      open == st.g.distractedStartTime # NoTime
  IN [st EXCEPT
        !.g.lastGazeState = gazeState,
        !.emit = IF changed THEN @ \cup {"onGazeChange"} ELSE @,
        !.g.distractedStartTime =
           IF isDistracted /\ ~open THEN t
           ELSE IF ~isDistracted /\ open THEN NoTime ELSE @,
        !.g.totalDistractedTime =
           IF ~isDistracted /\ open
           THEN @ + (t - st.g.distractedStartTime) ELSE @]

\* updateStats as it would be if closing the away interval added nothing to
\* the total.
updateStatsForgetting(st, n, t) ==
  LET isAway == n = 0
      changed == n # st.g.lastFaceCount
      open == st.g.awayStartTime # NoTime
  IN [st EXCEPT
        !.g.faceCount = n,
        !.g.faceCountChanges = IF changed THEN @ + 1 ELSE @,
        !.g.lastFaceCount = n,
        !.emit = (IF changed THEN @ \cup {"onFaceDetected"} ELSE @)
                   \cup {"onStatsUpdate"},
        !.g.awayStartTime =
           IF isAway /\ ~open THEN t
           ELSE IF ~isAway /\ open THEN NoTime ELSE @,
        !.g.totalAwayTime = @]

\* updateStats(faces), faces.length being n.
\* updateStats as it would be if a result with a face added the interval
\* to the total without closing it.
updateStatsLeavingOpen(st, n, t) ==
  LET isAway == n = 0
      changed == n # st.g.lastFaceCount
      open == st.g.awayStartTime # NoTime
  IN [st EXCEPT
        !.g.faceCount = n,
        !.g.faceCountChanges = IF changed THEN @ + 1 ELSE @,
        !.g.lastFaceCount = n,
        !.emit = (IF changed THEN @ \cup {"onFaceDetected"} ELSE @)
                   \cup {"onStatsUpdate"},
        !.g.awayStartTime = IF isAway /\ ~open THEN t ELSE @,
        !.g.totalAwayTime =
           IF ~isAway /\ open THEN @ + (t - st.g.awayStartTime) ELSE @]

updateStats(st, n, t) ==
  LET isAway == n = 0
      changed == n # st.g.lastFaceCount
      open == st.g.awayStartTime # NoTime
  IN [st EXCEPT
        !.g.faceCount = n,
        !.g.faceCountChanges = IF changed THEN @ + 1 ELSE @,
        !.g.lastFaceCount = n,
        !.emit = (IF changed THEN @ \cup {"onFaceDetected"} ELSE @)
                   \cup {"onStatsUpdate"},
        !.g.awayStartTime =
           IF isAway /\ ~open THEN t
           ELSE IF ~isAway /\ open THEN NoTime ELSE @,
        !.g.totalAwayTime =
           IF ~isAway /\ open THEN @ + (t - st.g.awayStartTime) ELSE @]

\* onFaceDetectionResults as it would be if a result delivered in idle mode
\* returned before updateStats even when it ends idle mode.
onFaceDetectionResultsLate(st, n, t) ==
  LET c == st.config
      secondOver == t - st.g.lastFrameTime >= 1000
      s1 == [st EXCEPT
               !.g.frameCounter = IF secondOver THEN 0 ELSE @ + 1,
               !.g.processingFps = IF secondOver THEN st.g.frameCounter + 1
                                   ELSE @,
               !.g.lastFrameTime = IF secondOver THEN t ELSE @,
               !.g.currentFaces = n]
      s2 == IF ~c.pauseOnIdle THEN s1
            ELSE IF n = 0
            THEN IF ~s1.g.isIdle /\ Gt(t - s1.g.lastIdleTime, c.idleTimeout)
                 THEN [s1 EXCEPT !.g.isIdle = TRUE] ELSE s1
            ELSE [s1 EXCEPT !.g.isIdle = FALSE, !.g.lastIdleTime = t]
  IN IF (st.g.isIdle \/ s2.g.isIdle) /\ c.pauseOnIdle THEN s2
     ELSE updateStats([s2 EXCEPT !.g.canvasUpdates = @ + 1], n, t)

\* onFaceDetectionResults as it would be if the idle check did not read
\* pauseOnIdle.
onFaceDetectionResultsAlwaysIdle(st, n, t) ==
  LET c == st.config
      secondOver == t - st.g.lastFrameTime >= 1000
      s1 == [st EXCEPT
               !.g.frameCounter = IF secondOver THEN 0 ELSE @ + 1,
               !.g.processingFps = IF secondOver THEN st.g.frameCounter + 1
                                   ELSE @,
               !.g.lastFrameTime = IF secondOver THEN t ELSE @,
               !.g.currentFaces = n]
      s2 == IF n = 0
            THEN IF ~s1.g.isIdle /\ Gt(t - s1.g.lastIdleTime, c.idleTimeout)
                 THEN [s1 EXCEPT !.g.isIdle = TRUE] ELSE s1
            ELSE [s1 EXCEPT !.g.isIdle = FALSE, !.g.lastIdleTime = t]
  IN IF s2.g.isIdle THEN s2
     ELSE updateStats([s2 EXCEPT !.g.canvasUpdates = @ + 1], n, t)

\* onFaceDetectionResults(results), results.detections.length being n.
\* this.ctx is set by the constructor and never cleared.
onFaceDetectionResults(st, n, t) ==
  LET c == st.config
      secondOver == t - st.g.lastFrameTime >= 1000
      s1 == [st EXCEPT
               !.g.frameCounter = IF secondOver THEN 0 ELSE @ + 1,
               !.g.processingFps = IF secondOver THEN st.g.frameCounter + 1
                                   ELSE @,
               !.g.lastFrameTime = IF secondOver THEN t ELSE @,
               !.g.currentFaces = n]
      s2 == IF ~c.pauseOnIdle THEN s1
            ELSE IF n = 0
            THEN IF ~s1.g.isIdle /\ Gt(t - s1.g.lastIdleTime, c.idleTimeout)
                 THEN [s1 EXCEPT !.g.isIdle = TRUE] ELSE s1
            ELSE [s1 EXCEPT !.g.isIdle = FALSE, !.g.lastIdleTime = t]
      shouldUpdateCanvas ==
        \/ ~c.reducedCanvas
        \/ n # s2.g.lastFaceCount
        \/ Abs(t - s2.g.lastFrameTime) > 500
      s3 == IF shouldUpdateCanvas
            THEN [s2 EXCEPT !.g.canvasUpdates = @ + 1] ELSE s2
  IN IF s2.g.isIdle /\ c.pauseOnIdle THEN s2 ELSE updateStats(s3, n, t)

\* a % b !== 0 in JavaScript: a % 0 and a % NaN are NaN, which is !== 0.
RemNotZero(a, b) == IsNaN(b) \/ b = 0 \/ a % Abs(b) # 0

\* onFaceMeshResults(results): results is [faces, lm], the number of entries
\* of multiFaceLandmarks and its first entry.  The result is [st, threw,
\* sample, reported]: the instance it leaves, whether it threw, the raw
\* direction it pushed on the history and the state it handed to
\* updateGazeStatus (Null for none).
\* onFaceMeshResults as it would be if a result without landmarks emptied
\* the smoothing history.
onFaceMeshResultsClearing(st, results, t) ==
  LET quit(s, threw) ==
        [st |-> s, threw |-> threw, sample |-> Null, reported |-> Null]
  IN
  IF RemNotZero(st.g.frameCounter, st.config.frameSkip)
  THEN quit([st EXCEPT !.g.framesSkipped = @ + 1], FALSE)
  ELSE IF st.g.isIdle /\ st.config.pauseOnIdle
  THEN quit(st, FALSE)
  ELSE IF results.faces > 0
  THEN LET gazeData == calculateGazeDirection(results.lm, st.config) IN
       IF gazeData.kind = "throw" THEN quit(st, TRUE)
       ELSE IF gazeData.kind = "null" THEN quit(st, FALSE)
       ELSE LET hist == PushGaze(st.g.gazeHistory, gazeData.direction,
                                 st.config.gazeHistorySize)
            IN [st |-> updateGazeStatus([st EXCEPT !.g.gazeHistory = hist],
                                        Resolve(hist), t),
                threw |-> FALSE,
                sample |-> gazeData.direction,
                reported |-> Resolve(hist)]
  ELSE [st |-> updateGazeStatus([st EXCEPT !.g.gazeHistory = <<>>],
                                "unknown", t),
        threw |-> FALSE, sample |-> Null, reported |-> "unknown"]

onFaceMeshResults(st, results, t) ==
  LET quit(s, threw) ==
        [st |-> s, threw |-> threw, sample |-> Null, reported |-> Null]
  IN
  IF RemNotZero(st.g.frameCounter, st.config.frameSkip)
  THEN quit([st EXCEPT !.g.framesSkipped = @ + 1], FALSE)
  ELSE IF st.g.isIdle /\ st.config.pauseOnIdle
  THEN quit(st, FALSE)
  ELSE IF results.faces > 0
  THEN LET gazeData == calculateGazeDirection(results.lm, st.config) IN
       IF gazeData.kind = "throw" THEN quit(st, TRUE)
       ELSE IF gazeData.kind = "null" THEN quit(st, FALSE)
       ELSE LET hist == PushGaze(st.g.gazeHistory, gazeData.direction,
                                 st.config.gazeHistorySize)
            IN [st |-> updateGazeStatus([st EXCEPT !.g.gazeHistory = hist],
                                        Resolve(hist), t),
                threw |-> FALSE,
                sample |-> gazeData.direction,
                reported |-> Resolve(hist)]
  ELSE [st |-> updateGazeStatus(st, "unknown", t), threw |-> FALSE,
        sample |-> Null, reported |-> "unknown"]

----------------------------------------------------------------------------
(* The rollup timer and the statistics snapshot.                           *)

\* The handle setInterval returns: one that no live timer holds.
FreshTimer(live) == CHOOSE i \in 1..(Cardinality(live) + 1) : i \notin live

stopTrackingDataTimer(st) ==
  IF st.g.trackingDataTimer # 0
  THEN [st EXCEPT !.timers = @ \ {st.g.trackingDataTimer},
                  !.g.trackingDataTimer = 0]
  ELSE st

startTrackingDataTimer(st) ==
  IF \/ Le(st.config.postTrackingDataInterval, 0)
     \/ ~st.config.onPostTrackingData
  THEN st
  ELSE LET s1 == stopTrackingDataTimer(st)
           id == FreshTimer(s1.timers)
       IN [s1 EXCEPT !.timers = @ \cup {id}, !.g.trackingDataTimer = id]

\* setTrackingDataInterval(seconds).
setTrackingDataInterval(st, seconds) ==
  LET newInterval == MathMax(0, ParseInt(seconds))
      s1 == [st EXCEPT !.config.postTrackingDataInterval = newInterval]
  IN IF ~s1.g.isRunning THEN s1
     ELSE IF Gt(newInterval, 0) /\ s1.config.onPostTrackingData
     THEN startTrackingDataTimer(s1)
     ELSE stopTrackingDataTimer(s1)

\* setTrackingDataCallback(callback); callback is TRUE for a function,
\* FALSE for null.
setTrackingDataCallback(st, callback) ==
  LET s1 == [st EXCEPT !.config.onPostTrackingData = callback]
  IN IF ~s1.g.isRunning THEN s1
     ELSE IF callback /\ Gt(s1.config.postTrackingDataInterval, 0)
     THEN startTrackingDataTimer(s1)
     ELSE stopTrackingDataTimer(s1)

\* postTrackingData(): the record goes to the consumer, then the
\* interval-scoped counter starts again.
\* postTrackingData as it would be if it reset the away total with the
\* interval counter.
postTrackingDataResetting(st, t) ==
  IF ~st.config.onPostTrackingData THEN st
  ELSE [st EXCEPT !.g.faceCountChanges = 0,
                  !.g.totalAwayTime = 0,
                  !.g.lastTrackingDataPost = t,
                  !.emit = @ \cup {"onPostTrackingData"}]

\* postTrackingData as it would be if it left the interval counter alone.
postTrackingDataKeeping(st, t) ==
  IF ~st.config.onPostTrackingData THEN st
  ELSE [st EXCEPT !.g.lastTrackingDataPost = t,
                  !.emit = @ \cup {"onPostTrackingData"}]

postTrackingData(st, t) ==
  IF ~st.config.onPostTrackingData THEN st
  ELSE [st EXCEPT !.g.faceCountChanges = 0,
                  !.g.lastTrackingDataPost = t,
                  !.emit = @ \cup {"onPostTrackingData"}]

\* forcePostTrackingData(): postTrackingData() when a consumer is set.
forcePostTrackingData(st, t) ==
  IF ~st.config.onPostTrackingData THEN st ELSE postTrackingData(st, t)

\* Math.floor(ms / 1000) of a non-negative duration.
Seconds(ms) == ms \div 1000

\* The record postTrackingData() builds at t, before it resets the counter.
trackingData(st, t) ==
  [timestamp |-> t,
   sessionDuration |-> Seconds(t - st.g.lastTrackingDataPost),
   faceCountChanges |-> st.g.faceCountChanges,
   totalAwayTime |->
     Seconds(st.g.totalAwayTime +
             (IF st.g.awayStartTime # NoTime
              THEN t - st.g.awayStartTime ELSE 0)),
   totalDistractedTime |->
     Seconds(st.g.totalDistractedTime +
             (IF st.g.distractedStartTime # NoTime
              THEN t - st.g.distractedStartTime ELSE 0)),
   currentFaceCount |-> st.g.faceCount,
   currentGazeState |-> st.g.lastGazeState,
   isRunning |-> st.g.isRunning,
   isIdle |-> st.g.isIdle]

\* getStats() as it would be if it closed the open away interval the way
\* updateStats does.
getStatsClosing(st, t) ==
  LET gg == IF st.g.awayStartTime # NoTime
            THEN [st.g EXCEPT !.totalAwayTime = @ + (t - st.g.awayStartTime),
                              !.awayStartTime = t]
            ELSE st.g
      currentDistractedTime ==
        gg.totalDistractedTime
          + (IF gg.distractedStartTime # NoTime
             THEN t - gg.distractedStartTime ELSE 0)
  IN [st |-> [st EXCEPT !.g = gg],
      ret |-> [faceCount |-> gg.faceCount,
               faceCountChanges |-> gg.faceCountChanges,
               awayTime |-> Seconds(gg.totalAwayTime),
               distractedTime |-> Seconds(currentDistractedTime),
               processingFps |-> gg.processingFps,
               framesSkipped |-> gg.framesSkipped,
               canvasUpdates |-> gg.canvasUpdates,
               gazeState |-> gg.lastGazeState,
               isRunning |-> gg.isRunning,
               isIdle |-> gg.isIdle]]

\* getStats(): [st, ret], the state it leaves and the snapshot it returns.
getStats(st, t) ==
  LET gg == st.g
      currentAwayTime ==
        gg.totalAwayTime
          + (IF gg.awayStartTime # NoTime THEN t - gg.awayStartTime ELSE 0)
      currentDistractedTime ==
        gg.totalDistractedTime
          + (IF gg.distractedStartTime # NoTime
             THEN t - gg.distractedStartTime ELSE 0)
  IN [st |-> st,
      ret |-> [faceCount |-> gg.faceCount,
               faceCountChanges |-> gg.faceCountChanges,
               awayTime |-> Seconds(currentAwayTime),
               distractedTime |-> Seconds(currentDistractedTime),
               processingFps |-> gg.processingFps,
               framesSkipped |-> gg.framesSkipped,
               canvasUpdates |-> gg.canvasUpdates,
               gazeState |-> gg.lastGazeState,
               isRunning |-> gg.isRunning,
               isIdle |-> gg.isIdle]]

----------------------------------------------------------------------------
(* face-detector.js, class FaceDetector (the first class of the file): the *)
(* requestAnimationFrame detection loop, processDetections with the pose   *)
(* smoother, and stop().  Landmark coordinates and thresholds are          *)
(* thousandths.  Event listeners run inside dispatchEvent; the only thing  *)
(* a listener is taken to do to the instance is call stop().               *)

\* The events a detection pass dispatches to classify what it saw, and the
\* events of a pass.
ClassEvents ==
  {"noPerson", "multiplePeople", "singlePerson", "lookingAway",
   "lookingStraight"}

PassEvents == ClassEvents \cup {"detection"}

\* lastPoseState = null.
NoPose == [lookingAway |-> FALSE, direction |-> "unset"]

\* No processDetections call in the last operation.
NoCall == [made |-> FALSE, count |-> 0, landmarks |-> FALSE, had |-> 0]

FdDefaultConfig ==
  [horizontalThreshold |-> 150, verticalThreshold |-> 80,
   smoothing |-> TRUE, smoothingFrames |-> 3]

\* The instance the constructor leaves.  raf holds the ids of the
\* requestAnimationFrame callbacks that are pending and rafCount the ids
\* handed out; inits counts the init() calls that are awaiting.  History:
\* events is what the last operation dispatched, in order; call is the
\* processDetections call it made (the face count, whether landmarks were
\* available, the length poseHistory had); halted says stop() has returned and
\* init() was not called since; passes and initCalls count the detection
\* passes and the init() calls.
NewDetector ==
  [faceLandmarker |-> FALSE, camera |-> FALSE, isInitialized |-> FALSE,
   animationId |-> 0, lastPoseState |-> NoPose, poseHistory |-> <<>>,
   config |-> FdDefaultConfig,
   raf |-> {}, rafCount |-> 0, inits |-> 0,
   events |-> <<>>, call |-> NoCall, halted |-> FALSE,
   passes |-> 0, initCalls |-> 0]

\* { ...this.config, ...options.config }, with options.config holding the
\* keys o.has with the values of o.val.
MergeConfig(c, o) ==
  [k \in DOMAIN c |-> IF k \in o.has THEN o.val[k] ELSE c[k]]

\* stop(): cancelAnimationFrame(this.animationId) cancels the callback
\* with that id if it is still pending.
FdStop(d) ==
  [d EXCEPT !.raf = IF d.animationId # 0 THEN @ \ {d.animationId} ELSE @,
            !.animationId = 0,
            !.isInitialized = FALSE,
            !.lastPoseState = NoPose,
            !.poseHistory = <<>>,
            !.events = Append(@, "stopped"),
            !.halted = TRUE]

\* dispatchEvent(new CustomEvent(ev)): the listeners of ev run before it
\* returns; stopOn holds the events that have a listener calling stop().
Dispatch(d, ev, stopOn) ==
  LET d1 == [d EXCEPT !.events = Append(@, ev)] IN
  IF ev \in stopOn THEN FdStop(d1) ELSE d1

\* analyzeFacePose(landmarks): the flag and the direction of the pose.
\* horizontalRatio > horizontalThreshold is |2 nose.x - (l.x + r.x)| /
\* (2 eyeDistance) > threshold / 1000 with the divisions multiplied out
\* (x / 0 is Infinity and 0 / 0 is NaN, for which > is false); likewise
\* the vertical test.
analyzeFacePose(landmarks, c) ==
  LET hDev2 == 2 * landmarks.noseTip.x
                 - (landmarks.leftEyeCorner.x + landmarks.rightEyeCorner.x)
      eyeDistance == Abs(landmarks.leftEyeCorner.x - landmarks.rightEyeCorner.x)
      vDev2 == 2 * landmarks.noseTip.y
                 - (landmarks.leftEyeCorner.y + landmarks.rightEyeCorner.y)
      faceHeight == Abs(landmarks.foreheadCenter.y - landmarks.chinBottom.y)
  IN IF Abs(hDev2) * 1000 > 2 * c.horizontalThreshold * eyeDistance
     THEN [lookingAway |-> TRUE,
           direction |-> IF hDev2 > 0 THEN "right" ELSE "left"]
     ELSE IF Abs(vDev2) * 1000 > 2 * c.verticalThreshold * faceHeight
     THEN [lookingAway |-> TRUE,
           direction |-> IF vDev2 > 0 THEN "down" ELSE "up"]
     ELSE [lookingAway |-> FALSE, direction |-> Null]

\* The directions of the poses of the history that look away.
RECURSIVE AwayDirections(_)
AwayDirections(hist) ==
  IF hist = <<>> THEN <<>>
  ELSE IF Head(hist).lookingAway
  THEN <<Head(hist).direction>> \o AwayDirections(Tail(hist))
  ELSE AwayDirections(Tail(hist))

\* smoothPose(currentPose): the instance with the pose pushed on its
\* history, and the pose it returns.
smoothPose(d, currentPose) ==
  IF ~d.config.smoothing THEN [d |-> d, pose |-> currentPose]
  ELSE
    LET pushed == Append(d.poseHistory, currentPose)
        hist == IF Len(pushed) > d.config.smoothingFrames
                THEN Tail(pushed) ELSE pushed
        d1 == [d EXCEPT !.poseHistory = hist]
        directions == AwayDirections(hist)
        awayCount == Len(directions)
        straightCount == Len(hist) - awayCount
        keys == FirstSeen(directions, <<>>)
    IN IF Len(hist) < d.config.smoothingFrames
       THEN [d |-> d1, pose |-> currentPose]
       ELSE IF straightCount > awayCount
       THEN [d |-> d1, pose |-> [lookingAway |-> FALSE, direction |-> Null]]
       ELSE [d |-> d1,
             pose |-> [lookingAway |-> TRUE,
                       direction |->
                         ReduceMax(Head(keys), Tail(keys), directions)]]

\* Whether `landmarks && landmarks.faceLandmarks &&
\* landmarks.faceLandmarks.length > 0` holds.
HasLandmarks(landmarks) == landmarks.given /\ landmarks.faces > 0

\* processDetections as it would be if several faces left the pose state
\* alone.
processDetectionsKeeping(d, faceCount, landmarks, stopOn) ==
  LET d0 == [d EXCEPT !.call = [made |-> TRUE, count |-> faceCount,
                                landmarks |-> HasLandmarks(landmarks),
                                had |-> Len(d.poseHistory)]]
  IN
  IF faceCount = 0
  THEN Dispatch([Dispatch(d0, "noPerson", stopOn)
                   EXCEPT !.lastPoseState = NoPose, !.poseHistory = <<>>],
                "detection", stopOn)
  ELSE IF faceCount > 1
  THEN Dispatch(Dispatch(d0, "multiplePeople", stopOn), "detection", stopOn)
  ELSE IF HasLandmarks(landmarks)
  THEN LET sm == IF d0.config.smoothing
                 THEN smoothPose(d0, analyzeFacePose(landmarks.face, d0.config))
                 ELSE [d |-> d0,
                       pose |-> analyzeFacePose(landmarks.face, d0.config)]
           ev == IF sm.pose.lookingAway THEN "lookingAway"
                 ELSE "lookingStraight"
       IN Dispatch([Dispatch(sm.d, ev, stopOn)
                      EXCEPT !.lastPoseState = sm.pose],
                   "detection", stopOn)
  ELSE Dispatch(Dispatch(d0, "singlePerson", stopOn), "detection", stopOn)

\* processDetections as it would be if the fallback for one face without
\* landmarks dispatched the raw 'detection' event only.
processDetectionsSilent(d, faceCount, landmarks, stopOn) ==
  LET d0 == [d EXCEPT !.call = [made |-> TRUE, count |-> faceCount,
                                landmarks |-> HasLandmarks(landmarks),
                                had |-> Len(d.poseHistory)]]
  IN
  IF faceCount = 0
  THEN Dispatch([Dispatch(d0, "noPerson", stopOn)
                   EXCEPT !.lastPoseState = NoPose, !.poseHistory = <<>>],
                "detection", stopOn)
  ELSE IF faceCount > 1
  THEN Dispatch([Dispatch(d0, "multiplePeople", stopOn)
                   EXCEPT !.lastPoseState = NoPose, !.poseHistory = <<>>],
                "detection", stopOn)
  ELSE IF HasLandmarks(landmarks)
  THEN LET sm == IF d0.config.smoothing
                 THEN smoothPose(d0, analyzeFacePose(landmarks.face, d0.config))
                 ELSE [d |-> d0,
                       pose |-> analyzeFacePose(landmarks.face, d0.config)]
           ev == IF sm.pose.lookingAway THEN "lookingAway"
                 ELSE "lookingStraight"
       IN Dispatch([Dispatch(sm.d, ev, stopOn)
                      EXCEPT !.lastPoseState = sm.pose],
                   "detection", stopOn)
  ELSE Dispatch(d0, "detection", stopOn)

\* processDetections(detections, landmarks), with faceCount the length of
\* detections.detections.
processDetections(d, faceCount, landmarks, stopOn) ==
  LET d0 == [d EXCEPT !.call = [made |-> TRUE, count |-> faceCount,
                                landmarks |-> HasLandmarks(landmarks),
                                had |-> Len(d.poseHistory)]]
  IN
  IF faceCount = 0
  THEN Dispatch([Dispatch(d0, "noPerson", stopOn)
                   EXCEPT !.lastPoseState = NoPose, !.poseHistory = <<>>],
                "detection", stopOn)
  ELSE IF faceCount > 1
  THEN Dispatch([Dispatch(d0, "multiplePeople", stopOn)
                   EXCEPT !.lastPoseState = NoPose, !.poseHistory = <<>>],
                "detection", stopOn)
  ELSE IF HasLandmarks(landmarks)
  THEN LET sm == IF d0.config.smoothing
                 THEN smoothPose(d0, analyzeFacePose(landmarks.face, d0.config))
                 ELSE [d |-> d0,
                       pose |-> analyzeFacePose(landmarks.face, d0.config)]
           ev == IF sm.pose.lookingAway THEN "lookingAway"
                 ELSE "lookingStraight"
       IN Dispatch([Dispatch(sm.d, ev, stopOn)
                      EXCEPT !.lastPoseState = sm.pose],
                   "detection", stopOn)
  ELSE Dispatch(Dispatch(d0, "singlePerson", stopOn), "detection", stopOn)

\* No landmark result: the landmarker is missing or its call threw.
NoLandmarks ==
  [given |-> FALSE, faces |-> 0,
   face |-> [noseTip |-> [x |-> 0, y |-> 0]]]

\* detect(), the callback of startDetection: one pass over the frame `in`
\* (ready: camera.readyState is 4; count: the faces detected; landmarks:
\* what the landmarker returns; stopOn: the listeners that call stop()),
\* then requestAnimationFrame(detect).
detect(d, in) ==
  LET d1 == IF ~in.ready THEN d
            ELSE IF in.count = 1
            THEN processDetections(
                   d, in.count,
                   IF d.faceLandmarker THEN in.landmarks ELSE NoLandmarks,
                   in.stopOn)
            ELSE processDetections(d, in.count, NoLandmarks, in.stopOn)
      id == d1.rafCount + 1
  IN [d1 EXCEPT !.passes = @ + 1,
                !.rafCount = id,
                !.raf = @ \cup {id},
                !.animationId = id]

\* startDetection()
startDetection(d, in) ==
  IF ~d.isInitialized \/ ~d.camera THEN d ELSE detect(d, in)

\* enableSmoothing(enabled)
enableSmoothing(d, enabled) ==
  [d EXCEPT !.config.smoothing = enabled,
            !.poseHistory = IF ~enabled THEN <<>> ELSE @]

----------------------------------------------------------------------------
(* The state machine.  An operation reads the instance as St and writes    *)
(* what it leaves with Commit.                                             *)

\* The history of the frame callbacks: the detection results delivered, the
\* face counts handed to updateStats, the onFaceDetected calls, the last
\* landmark result delivered, the raw directions pushed on the smoothing
\* history with the state resolved after each, the states handed to
\* updateGazeStatus, and the states onGazeChange was called with; when the
\* last detection result with a face came (lastFaceAt), since when every
\* detection result has had no face (zeroSince), and whether every landmark
\* result had a face exactly when the detection result before it had
\* (agree), and the sum of the faceCountChanges of the rollup records
\* delivered (posted).  A specification that reads none of it keeps none
\* (NoHist), and
\* one that reads only the counts and the times keeps no sequence and no
\* landmark result (BriefHist).
NoHist ==
  [on |-> FALSE, log |-> FALSE, dets |-> 0, processed |-> 0,
   faces |-> <<>>, faceEvents |-> 0,
   lastFaceAt |-> NoTime, zeroSince |-> NoTime, agree |-> TRUE,
   meshes |-> 0, mesh |-> Null, posted |-> 0,
   raw |-> <<>>, resolved |-> <<>>, reported |-> <<>>, gaze |-> <<>>]

EmptyHist == [NoHist EXCEPT !.on = TRUE, !.log = TRUE]

BriefHist == [NoHist EXCEPT !.on = TRUE]

RecordDetection(h, n, fired, t) ==
  IF ~h.on THEN h
  ELSE [h EXCEPT
          !.dets = @ + 1,
          !.lastFaceAt = IF n > 0 THEN t ELSE @,
          !.zeroSince = IF n > 0 THEN NoTime ELSE IF @ = NoTime THEN t ELSE @,
          !.processed = IF "onStatsUpdate" \in fired THEN @ + 1 ELSE @,
          !.faces = IF h.log /\ "onStatsUpdate" \in fired
                    THEN Append(@, n) ELSE @,
          !.faceEvents = IF "onFaceDetected" \in fired THEN @ + 1 ELSE @]

RecordMesh(h, results, r) ==
  IF ~h.on THEN h
  ELSE [h EXCEPT
          !.meshes = @ + 1,
          !.agree = @ /\ ((results.faces > 0) = (r.st.g.currentFaces > 0)),
          !.mesh = IF h.log THEN results ELSE @,
          !.raw = IF h.log /\ r.sample # Null THEN Append(@, r.sample) ELSE @,
          !.resolved = IF h.log /\ r.sample # Null
                       THEN Append(@, r.reported) ELSE @,
          !.reported = IF h.log /\ r.reported # Null
                       THEN Append(@, r.reported) ELSE @,
          !.gaze = IF h.log /\ "onGazeChange" \in r.st.emit
                   THEN Append(@, r.st.g.lastGazeState) ELSE @]

St == [config |-> config, g |-> g, emit |-> {}, timers |-> timers]

Commit(st) ==
  /\ config' = st.config
  /\ g' = st.g
  /\ emit' = st.emit
  /\ timers' = st.timers

\* new Camera(video, {onFrame, ...}) inside start(): the closure's
\* lastProcessTime and the targetFps that frameInterval was computed from;
\* `starting` while start() awaits camera.start(), `stopping` the stop() calls
\* awaiting camera.stop(), `live` while the camera delivers frames, `frame` the
\* send the current onFrame call awaits and frameNow the `now` it read.
NewCamera(c) ==
  [starting |-> TRUE, stopping |-> 0, live |-> FALSE,
   fps |-> c.targetFps, lastProcessTime |-> 0, frame |-> "none", frameNow |-> 0]

\* start() as it would be without the readiness check.
StartUnchecked(maxStarts) ==
  /\ Len(cams) < maxStarts
  /\ cams' = Append(cams, NewCamera(config))
  /\ g' = [g EXCEPT !.camera = Len(cams) + 1]
  /\ lastEv' = "start:await"
  /\ emit' = {}
  /\ quiet' = FALSE
  /\ UNCHANGED <<config, now, timers, opts, fd, obs, arg, frames>>

\* start() up to `await this.camera.start()`; maxStarts bounds the cameras.
Start(maxStarts) ==
  IF ~g.isModelLoaded
  THEN /\ lastEv' = "start:rejected"
       /\ emit' = {}
       /\ quiet' = FALSE
       /\ UNCHANGED <<config, g, now, cams, timers, opts, fd, obs, arg, frames>>
  ELSE /\ Len(cams) < maxStarts
       /\ cams' = Append(cams, NewCamera(config))
       /\ g' = [g EXCEPT !.camera = Len(cams) + 1]
       /\ lastEv' = IF lastEv \in {"stop:done", "stop:again"}
                    THEN "restart:await" ELSE "start:await"
       /\ emit' = {}
       /\ quiet' = FALSE
       /\ UNCHANGED <<config, now, timers, opts, fd, obs, arg, frames>>

\* start() after camera.start() resolved.
StartResume(c) ==
  /\ cams[c].starting
  /\ cams' = [cams EXCEPT ![c].starting = FALSE, ![c].live = TRUE]
  /\ Commit(startTrackingDataTimer(
       [St EXCEPT !.g.resizeListener = TRUE, !.g.isRunning = TRUE]))
  /\ lastEv' = IF lastEv = "restart:await" THEN "restart:done"
               ELSE "start:done"
  /\ UNCHANGED <<now, opts, fd, obs, arg, frames, quiet>>

\* start() after camera.start() rejected: the catch block.
StartFail(c) ==
  /\ cams[c].starting
  /\ cams' = [cams EXCEPT ![c].starting = FALSE]
  /\ emit' = IF config.onError THEN {"onError"} ELSE {}
  /\ lastEv' = "start:failed"
  /\ UNCHANGED <<config, g, now, timers, opts, fd, obs, arg, frames, quiet>>

\* stop()'s reset as it would be if it left faceCountChanges alone.
stopResetKeepingChanges(st) ==
  [st EXCEPT !.g.resizeListener = FALSE,
             !.g.faceCount = 0,
             !.g.lastFaceCount = NoFaceCount,
             !.g.awayStartTime = NoTime,
             !.g.totalAwayTime = 0,
             !.g.distractedStartTime = NoTime,
             !.g.totalDistractedTime = 0,
             !.g.currentFaces = 0,
             !.g.lastGazeState = Null,
             !.g.gazeHistory = <<>>,
             !.g.frameCounter = 0,
             !.g.framesSkipped = 0,
             !.g.canvasUpdates = 0,
             !.g.isIdle = FALSE]

\* stop() from "Remove event listeners" on.
stopReset(st) ==
  [st EXCEPT !.g.resizeListener = FALSE,
             !.g.faceCount = 0,
             !.g.lastFaceCount = NoFaceCount,
             !.g.awayStartTime = NoTime,
             !.g.totalAwayTime = 0,
             !.g.distractedStartTime = NoTime,
             !.g.totalDistractedTime = 0,
             !.g.faceCountChanges = 0,
             !.g.currentFaces = 0,
             !.g.lastGazeState = Null,
             !.g.gazeHistory = <<>>,
             !.g.frameCounter = 0,
             !.g.framesSkipped = 0,
             !.g.canvasUpdates = 0,
             !.g.isIdle = FALSE]

\* stop() up to `await this.camera.stop()`, or to its end when there is no
\* camera to await.
Stop ==
  LET s1 == stopTrackingDataTimer([St EXCEPT !.g.isRunning = FALSE]) IN
  IF g.camera # 0
  THEN /\ cams[g.camera].stopping < MaxPending
       /\ cams' = [cams EXCEPT ![g.camera].live = FALSE,
                               ![g.camera].stopping = @ + 1]
       /\ Commit(s1)
       /\ lastEv' = "stop:await"
       /\ UNCHANGED <<now, opts, fd, obs, arg, frames, quiet>>
  ELSE /\ Commit(stopReset(s1))
       /\ lastEv' = IF lastEv \in {"stop:done", "stop:again"}
                    THEN "stop:again" ELSE "stop:done"
       /\ quiet' = TRUE
       /\ UNCHANGED <<now, cams, opts, fd, obs, arg, frames>>

\* stop() after camera.stop() resolved.
StopResume(c) ==
  /\ cams[c].stopping > 0
  /\ cams' = [cams EXCEPT ![c].stopping = @ - 1]
  /\ Commit(stopReset([St EXCEPT !.g.camera = 0]))
  /\ lastEv' = "stop:done"
  /\ quiet' = TRUE
  /\ UNCHANGED <<now, opts, fd, obs, arg, frames>>

\* The camera calls onFrame: up to `await this.faceDetection.send(...)`;
\* maxFrames bounds the frames accepted.
OnFrame(c, maxFrames) ==
  /\ cams[c].live
  /\ cams[c].frame = "none"
  /\ IF ~g.isRunning
     THEN UNCHANGED <<cams, frames, emit, lastEv>>
     ELSE IF Ge((now - cams[c].lastProcessTime) * cams[c].fps, 1000)
     THEN /\ frames < maxFrames
          /\ frames' = frames + 1
          /\ cams' = [cams EXCEPT ![c].frame = "detection",
                                  ![c].frameNow = now]
          /\ lastEv' = "frame:accepted"
          /\ emit' = {}
     ELSE UNCHANGED <<cams, frames, emit, lastEv>>
  /\ UNCHANGED <<config, g, now, timers, opts, fd, obs, arg, quiet>>

\* faceDetection.send() delivers its result and resolves; onFrame goes on to
\* `await this.faceMesh.send(...)`.
DetectionResult(c, n) ==
  /\ cams[c].frame = "detection"
  /\ cams' = [cams EXCEPT ![c].frame = "mesh"]
  /\ Commit(onFaceDetectionResults(St, n, now))
  /\ obs' = RecordDetection(obs, n, onFaceDetectionResults(St, n, now).emit,
                            now)
  /\ lastEv' = "detection"
  /\ UNCHANGED <<now, opts, fd, arg, frames, quiet>>

\* faceMesh.send() delivers its result; onFrame ends with
\* lastProcessTime = now, unless the callback threw.
MeshResult(c, results) ==
  LET r == onFaceMeshResults(St, results, now) IN
  /\ cams[c].frame = "mesh"
  /\ cams' = [cams EXCEPT
                ![c].frame = "none",
                ![c].lastProcessTime = IF r.threw THEN @ ELSE cams[c].frameNow]
  /\ Commit(r.st)
  /\ obs' = RecordMesh(obs, results, r)
  /\ lastEv' = IF r.threw THEN "mesh:threw" ELSE "mesh"
  /\ UNCHANGED <<now, opts, fd, arg, frames, quiet>>

\* The landmark model hands a result to the callback registered with
\* faceMesh.onResults; maxResults bounds the results handed over.
OnResults(results, maxResults) ==
  LET r == onFaceMeshResults(St, results, now) IN
  /\ g.isModelLoaded
  /\ obs.on /\ obs.meshes < maxResults
  /\ Commit(r.st)
  /\ obs' = RecordMesh(obs, results, r)
  /\ lastEv' = IF r.threw THEN "mesh:threw" ELSE "mesh"
  /\ UNCHANGED <<now, cams, opts, fd, arg, frames, quiet>>

\* The detection model hands a result of n faces to the callback registered
\* with faceDetection.onResults; maxResults bounds the results handed over.
OnDetections(n, maxResults) ==
  /\ g.isModelLoaded
  /\ obs.on /\ obs.dets < maxResults
  /\ Commit(onFaceDetectionResults(St, n, now))
  /\ obs' = RecordDetection(obs, n, onFaceDetectionResults(St, n, now).emit,
                            now)
  /\ lastEv' = "detection"
  /\ UNCHANGED <<now, cams, opts, fd, arg, frames, quiet>>

\* The history after postTrackingData() ran on st at t.
RecordRollup(h, st, t) ==
  IF ~h.on \/ ~st.config.onPostTrackingData THEN h
  ELSE [h EXCEPT !.posted = @ + trackingData(st, t).faceCountChanges]

\* The setInterval callback of startTrackingDataTimer.
TimerTick(id) ==
  /\ id \in timers
  /\ Commit(postTrackingData(St, now))
  /\ obs' = RecordRollup(obs, St, now)
  /\ lastEv' = "timer"
  /\ UNCHANGED <<now, cams, opts, fd, arg, frames, quiet>>

SetTrackingDataInterval(seconds) ==
  /\ Commit(setTrackingDataInterval(St, seconds))
  /\ lastEv' = "setTrackingDataInterval"
  /\ UNCHANGED <<now, cams, opts, fd, obs, arg, frames, quiet>>

SetTrackingDataCallback(callback) ==
  /\ Commit(setTrackingDataCallback(St, callback))
  /\ lastEv' = "setTrackingDataCallback"
  /\ UNCHANGED <<now, cams, opts, fd, obs, arg, frames, quiet>>

\* destroy(): stop(), not awaited, when running, then
\* stopTrackingDataTimer(); stop() goes on from its await in StopResume.
Destroy ==
  LET s1 == stopTrackingDataTimer([St EXCEPT !.g.isRunning = FALSE]) IN
  /\ IF g.isRunning
     THEN IF g.camera # 0
          THEN /\ cams[g.camera].stopping < MaxPending
               /\ cams' = [cams EXCEPT ![g.camera].live = FALSE,
                                       ![g.camera].stopping = @ + 1]
               /\ Commit(s1)
               /\ UNCHANGED quiet
          ELSE /\ Commit(stopReset(s1))
               /\ quiet' = TRUE
               /\ UNCHANGED cams
     ELSE /\ Commit(stopTrackingDataTimer(St))
          /\ UNCHANGED <<cams, quiet>>
  /\ lastEv' = "destroy"
  /\ UNCHANGED <<now, opts, fd, obs, arg, frames>>

ForcePostTrackingData ==
  /\ Commit(forcePostTrackingData(St, now))
  /\ obs' = RecordRollup(obs, St, now)
  /\ lastEv' = "forcePost"
  /\ UNCHANGED <<now, cams, opts, fd, arg, frames, quiet>>

\* A caller reads the statistics; the call is not recorded in lastEv.
GetStats ==
  LET r == getStats(St, now) IN
  /\ config' = r.st.config
  /\ g' = r.st.g
  /\ timers' = r.st.timers
  /\ UNCHANGED <<now, cams, emit, opts, fd, obs, arg, frames, quiet, lastEv>>

SetFrameRate(fps) ==
  /\ Commit(setFrameRate(St, fps))
  /\ lastEv' = "setFrameRate"
  /\ UNCHANGED <<now, cams, opts, fd, obs, arg, frames, quiet>>

SetSensitivityMode(mode) ==
  /\ Commit(setSensitivityMode(St, mode))
  /\ lastEv' = "setSensitivityMode"
  /\ UNCHANGED <<now, cams, opts, fd, obs, arg, frames, quiet>>

SetPauseOnIdle(enabled) ==
  /\ Commit(setPauseOnIdle(St, enabled))
  /\ lastEv' = "setPauseOnIdle"
  /\ UNCHANGED <<now, cams, opts, fd, obs, arg, frames, quiet>>

SetGazeHistorySize(size) ==
  /\ Commit(setGazeHistorySize(St, size))
  /\ lastEv' = "setGazeHistorySize"
  /\ UNCHANGED <<now, cams, opts, fd, obs, arg, frames, quiet>>

UpdateConfig(newConfig) ==
  /\ Commit(updateConfig(St, newConfig))
  /\ lastEv' = "updateConfig"
  /\ UNCHANGED <<now, cams, opts, fd, obs, arg, frames, quiet>>

UpdateSettings(settings) ==
  /\ Commit(updateSettings(St, settings))
  /\ arg' = settings
  /\ lastEv' = "updateSettings"
  /\ UNCHANGED <<now, cams, opts, fd, obs, frames, quiet>>

\* Date.now() moves on by d ms, up to `horizon` ms after construction.
Tick(d, horizon) ==
  /\ now + d <= Epoch + horizon
  /\ now' = now + d
  /\ UNCHANGED <<config, g, cams, timers, emit, frames, quiet, lastEv>>
  /\ UNCHANGED <<opts, fd, arg, obs>>

----------------------------------------------------------------------------
(* Inputs.                                                                 *)

\* An options object holding the keys `has` with the values of `val`.
Options(has, val) == [has |-> has, val |-> val]

LifeOptions ==
  { Options({}, DefaultConfig),
    Options({"onPostTrackingData", "postTrackingDataInterval"},
            [DefaultConfig EXCEPT !.onPostTrackingData = TRUE,
                                  !.postTrackingDataInterval = 1]) }

Point(x, y) == [x |-> x, y |-> y]

\* A full mesh whose eye corners are at x = a, a+50, a+150, a+200 and whose
\* lids are all at y.
Face(a, y) ==
  [length |-> 478, has |-> Anchors,
   pt |-> [k \in Anchors |->
             CASE k = "leftEyeOuter" -> Point(a, y)
               [] k = "leftEyeInner" -> Point(a + 50, y)
               [] k = "rightEyeInner" -> Point(a + 150, y)
               [] k = "rightEyeOuter" -> Point(a + 200, y)
               [] OTHER -> Point(a + 100, y)]]

MeshInputs ==
  { [faces |-> 0, lm |-> Face(400, 400)],
    [faces |-> 1, lm |-> Face(400, 400)],
    [faces |-> 1, lm |-> Face(600, 400)] }

\* Landmark sets no direction can be computed from: one of 400 entries, one
\* of 478 without its nose tip, one of 478 without its left inner eye corner.
UnusableInputs ==
  { [faces |-> 1, lm |-> [Face(400, 400) EXCEPT !.length = 400]],
    [faces |-> 1, lm |-> [Face(400, 400) EXCEPT !.has = Anchors \ {"noseTip"}]],
    [faces |-> 1,
     lm |-> [Face(400, 400) EXCEPT !.has = Anchors \ {"leftEyeInner"}]] }

\* The face counts of the detection results: nobody, one person.
PresenceInputs == {0, 1}

\* The window sizes a caller reduces the history to.
WindowInputs == {2000}

\* A full mesh with the eye corners at the x given (left outer, left inner,
\* right inner, right outer) and the lids at the y given (top, bottom).
Mesh(lo, li, ri, ro, top, bottom) ==
  [length |-> 478, has |-> Anchors,
   pt |-> [k \in Anchors |->
             CASE k = "leftEyeOuter" -> Point(lo, (top + bottom) \div 2)
               [] k = "leftEyeInner" -> Point(li, (top + bottom) \div 2)
               [] k = "rightEyeInner" -> Point(ri, (top + bottom) \div 2)
               [] k = "rightEyeOuter" -> Point(ro, (top + bottom) \div 2)
               [] k \in {"leftEyeTop", "rightEyeTop"} ->
                    Point((lo + ro) \div 2, top)
               [] k \in {"leftEyeBottom", "rightEyeBottom"} ->
                    Point((lo + ro) \div 2, bottom)
               [] OTHER -> Point((lo + ro) \div 2, bottom + 100)]]

\* Eye corners: centred, off centre by less than, exactly and more than the
\* medium threshold, and two with the eye centres at the same x (eye
\* distance 0), on and off the centre line.
CornerInputs ==
  { <<400, 450, 550, 600>>, <<400, 450, 550, 1000>>, <<400, 450, 550, 1050>>,
    <<400, 450, 550, 1100>>, <<100, 450, 550, 600>>,
    <<400, 600, 550, 450>>, <<400, 450, 400, 450>> }

\* Lids: level with the centre line, below it by less than, exactly and
\* more than the medium threshold, and above it by more.
LidInputs ==
  { <<380, 420>>, <<500, 540>>, <<530, 570>>, <<531, 571>>, <<200, 240>> }

DirectionInputs ==
  { [faces |-> 1, lm |-> Mesh(x[1], x[2], x[3], x[4], y[1], y[2])] :
      x \in CornerInputs, y \in LidInputs }

----------------------------------------------------------------------------
(* The session specification: one instance, its API calls, its camera and  *)
(* model callbacks and the clock.                                          *)

Init ==
  /\ opts \in LifeOptions
  /\ config = Construct(opts)
  /\ \E loaded \in BOOLEAN : g = InitialState(loaded, Epoch)
  /\ now = Epoch
  /\ cams = <<>>
  /\ timers = {}
  /\ emit = {}
  /\ frames = 0
  /\ quiet = FALSE
  /\ arg = <<>>
  /\ obs = NoHist
  /\ lastEv = "new"
  /\ fd = NewDetector

\* What the session does once its cameras are created.
Session ==
  \/ \E c \in DOMAIN cams : StartResume(c)
  \/ \E c \in DOMAIN cams : StartFail(c)
  \/ Stop
  \/ \E c \in DOMAIN cams : StopResume(c)
  \/ \E c \in DOMAIN cams : OnFrame(c, MaxFrames)
  \/ \E c \in DOMAIN cams, n \in 0..MaxFaces : DetectionResult(c, n)
  \/ \E c \in DOMAIN cams, r \in MeshInputs : MeshResult(c, r)
  \/ \E id \in timers : TimerTick(id)
  \/ GetStats
  \/ Tick(1000, MaxTime)

Next == Start(MaxStarts) \/ Session

Spec == Init /\ [][Next]_vars

\* The restart specification: the same session, with cameras for a start()
\* after a stop().
NextRestart == Start(MaxRestarts) \/ Session

SpecRestart == Init /\ [][NextRestart]_vars

----------------------------------------------------------------------------
(* The configuration specification: one constructor call, then one         *)
(* updateSettings call.                                                    *)

\* The values an options object gives the constructor for the keys it has.
CtorValues ==
  [DefaultConfig EXCEPT !.performanceMode = "high",
                        !.targetFps = 10,
                        !.reducedCanvas = TRUE,
                        !.sensitivityMode = "strict",
                        !.horizontalThreshold = 250]

CtorKeys ==
  {"performanceMode", "targetFps", "reducedCanvas", "sensitivityMode",
   "horizontalThreshold"}

CtorOptions == { Options(has, CtorValues) : has \in SUBSET CtorKeys }

IntKeys == {"targetFps", "frameSkip", "gazeHistorySize"}

FloatKeys == {"horizontalThreshold", "verticalThreshold"}

BoolKeys == {"pauseOnIdle", "reducedCanvas", "showFaceRectangle"}

\* 'abc', 0, 3, 12.7, 20 and 40.
IntInputs == {NaN, 0, 3000, 12700, 20000, 40000}

\* 'abc', 0, 0.25 and 5.0.
FloatInputs == {NaN, 0, 250, 5000}

SettingInputs ==
  { Setting(k, n, "", FALSE) : k \in IntKeys, n \in IntInputs }
    \cup { Setting(k, n, "", FALSE) : k \in FloatKeys, n \in FloatInputs }
    \cup { Setting(k, 0, "", b) : k \in BoolKeys, b \in BOOLEAN }
    \cup { Setting("performanceMode", 0, m, FALSE) :
             m \in {"high", "low", "manual", "turbo"} }
    \cup { Setting("sensitivityMode", 0, m, FALSE) :
             m \in {"strict", "relaxed", ""} }
    \cup { Setting("bogus", 0, "", FALSE) }

\* The settings objects of up to MaxKeys keys, in the order of their keys.
SettingSeqs ==
  { s \in UNION { [1..n -> SettingInputs] : n \in 1..MaxKeys } :
      \A i, j \in DOMAIN s : i # j => s[i].key # s[j].key }

InitConfig ==
  /\ opts \in CtorOptions
  /\ config = Construct(opts)
  /\ g = InitialState(TRUE, Epoch)
  /\ now = Epoch
  /\ cams = <<>>
  /\ timers = {}
  /\ emit = {}
  /\ frames = 0
  /\ quiet = FALSE
  /\ arg = <<>>
  /\ obs = NoHist
  /\ lastEv = "new"
  /\ fd = NewDetector

NextConfig == lastEv = "new" /\ \E s \in SettingSeqs : UpdateSettings(s)

SpecConfig == InitConfig /\ [][NextConfig]_vars

----------------------------------------------------------------------------
(* The frame-rate specification: a running session on a clock of FineStep  *)
(* ms whose targetFps is changed while frames arrive.                      *)

\* 5 and 30 frames a second.
RateInputs == {5000, 30000}

NextRate ==
  \/ Start(MaxStarts)
  \/ \E c \in DOMAIN cams : StartResume(c)
  \/ \E c \in DOMAIN cams : OnFrame(c, MaxRateFrames)
  \/ \E c \in DOMAIN cams, n \in 0..MaxFaces : DetectionResult(c, n)
  \/ \E c \in DOMAIN cams, r \in MeshInputs : MeshResult(c, r)
  \/ \E fps \in RateInputs : SetFrameRate(fps)
  \/ Tick(FineStep, MaxFine * FineStep)

SpecRate == Init /\ [][NextRate]_vars

----------------------------------------------------------------------------
(* The presence specification: one session of a default instance with its  *)
(* models loaded, detection results of 0..MaxCount faces, and a clock that *)
(* runs past the idle timeout.  The history of the callbacks is kept.      *)

InitFaces ==
  /\ opts = Options({}, DefaultConfig)
  /\ config = Construct(opts)
  /\ g = InitialState(TRUE, Epoch)
  /\ now = Epoch
  /\ cams = <<>>
  /\ timers = {}
  /\ emit = {}
  /\ frames = 0
  /\ quiet = FALSE
  /\ arg = <<>>
  /\ obs = EmptyHist
  /\ lastEv = "new"
  /\ fd = NewDetector

NextFaces ==
  \/ Start(MaxStarts)
  \/ \E c \in DOMAIN cams : StartResume(c)
  \/ \E c \in DOMAIN cams : OnFrame(c, MaxFaceFrames)
  \/ \E c \in DOMAIN cams, n \in 0..MaxCount : DetectionResult(c, n)
  \/ \E c \in DOMAIN cams, r \in MeshInputs : MeshResult(c, r)
  \/ Tick(1000, MaxIdleTime)

SpecFaces == InitFaces /\ [][NextFaces]_vars

----------------------------------------------------------------------------
(* The gaze specification: one session of an instance in high performance  *)
(* mode (every frame processed), with landmark results of no face, a face  *)
(* looking at the screen, a face looking away and unusable landmark sets.  *)

InitGaze ==
  /\ opts = Options({"performanceMode"},
                    [DefaultConfig EXCEPT !.performanceMode = "high"])
  /\ config = Construct(opts)
  /\ g = InitialState(TRUE, Epoch)
  /\ now = Epoch
  /\ cams = <<>>
  /\ timers = {}
  /\ emit = {}
  /\ frames = 0
  /\ quiet = FALSE
  /\ arg = <<>>
  /\ obs = EmptyHist
  /\ lastEv = "new"
  /\ fd = NewDetector

NextGaze ==
  \/ Start(MaxStarts)
  \/ \E c \in DOMAIN cams : StartResume(c)
  \/ \E c \in DOMAIN cams : OnFrame(c, MaxGazeFrames)
  \/ \E c \in DOMAIN cams, n \in 0..MaxFaces : DetectionResult(c, n)
  \/ \E c \in DOMAIN cams, r \in MeshInputs \cup UnusableInputs :
       MeshResult(c, r)
  \/ Tick(1000, MaxGazeTime)

SpecGaze == InitGaze /\ [][NextGaze]_vars

----------------------------------------------------------------------------
(* The window specification: the session of the gaze specification with    *)
(* usable landmark results only, and a caller that reduces the smoothing   *)
(* window while the session runs.                                          *)

InitWindow ==
  /\ opts = Options({"performanceMode"},
                    [DefaultConfig EXCEPT !.performanceMode = "high"])
  /\ config = Construct(opts)
  /\ g = InitialState(TRUE, Epoch)
  /\ now = Epoch
  /\ cams = <<>>
  /\ timers = {}
  /\ emit = {}
  /\ frames = 0
  /\ quiet = FALSE
  /\ arg = <<>>
  /\ obs = NoHist
  /\ lastEv = "new"
  /\ fd = NewDetector

NextWindow ==
  \/ Start(MaxStarts)
  \/ \E c \in DOMAIN cams : StartResume(c)
  \/ \E c \in DOMAIN cams : OnFrame(c, MaxWindowFrames)
  \/ \E c \in DOMAIN cams, n \in 0..MaxFaces : DetectionResult(c, n)
  \/ \E c \in DOMAIN cams, r \in MeshInputs : MeshResult(c, r)
  \/ SetSensitivityMode("strict")
  \/ \E n \in WindowInputs : SetGazeHistorySize(n)
  \/ \E n \in WindowInputs :
       UpdateConfig(Options({"gazeHistorySize"},
                            [DefaultConfig EXCEPT !.gazeHistorySize = n \div 1000]))
  \/ Tick(1000, MaxWindowTime)

SpecWindow == InitWindow /\ [][NextWindow]_vars

----------------------------------------------------------------------------
(* The smoothing specification: an instance constructed with a window of   *)
(* 1..MaxWindow entries, and the landmark results its callback is handed.  *)

SmoothOptions ==
  { Options({"gazeHistorySize"}, [DefaultConfig EXCEPT !.gazeHistorySize = n]) :
      n \in 1..MaxWindow }

InitSmooth ==
  /\ opts \in SmoothOptions
  /\ config = Construct(opts)
  /\ g = InitialState(TRUE, Epoch)
  /\ now = Epoch
  /\ cams = <<>>
  /\ timers = {}
  /\ emit = {}
  /\ frames = 0
  /\ quiet = FALSE
  /\ arg = <<>>
  /\ obs = EmptyHist
  /\ lastEv = "new"
  /\ fd = NewDetector

NextSmooth == \E r \in MeshInputs : OnResults(r, MaxSamples)

SpecSmooth == InitSmooth /\ [][NextSmooth]_vars

----------------------------------------------------------------------------
(* The direction specification: an instance constructed with one of the    *)
(* sensitivity presets, and landmark results with every anchor present.    *)

DirectionOptions ==
  { Options({"sensitivityMode"}, [DefaultConfig EXCEPT !.sensitivityMode = m]) :
      m \in SensitivityModes }

InitDirection ==
  /\ opts \in DirectionOptions
  /\ config = Construct(opts)
  /\ g = InitialState(TRUE, Epoch)
  /\ now = Epoch
  /\ cams = <<>>
  /\ timers = {}
  /\ emit = {}
  /\ frames = 0
  /\ quiet = FALSE
  /\ arg = <<>>
  /\ obs = EmptyHist
  /\ lastEv = "new"
  /\ fd = NewDetector

NextDirection == \E r \in DirectionInputs : OnResults(r, MaxDirections)

SpecDirection == InitDirection /\ [][NextDirection]_vars

----------------------------------------------------------------------------
(* The frame-skip specification: one session of an instance in medium      *)
(* performance mode (frameSkip 2, so the landmark result of every other    *)
(* frame of a second is skipped), with nobody or one person in front of    *)
(* the camera.                                                             *)

InitSkip ==
  /\ opts = Options({"performanceMode"}, DefaultConfig)
  /\ config = Construct(opts)
  /\ g = InitialState(TRUE, Epoch)
  /\ now = Epoch
  /\ cams = <<>>
  /\ timers = {}
  /\ emit = {}
  /\ frames = 0
  /\ quiet = FALSE
  /\ arg = <<>>
  /\ obs = BriefHist
  /\ lastEv = "new"
  /\ fd = NewDetector

NextSkip ==
  \/ Start(MaxStarts)
  \/ \E c \in DOMAIN cams : StartResume(c)
  \/ \E c \in DOMAIN cams : OnFrame(c, MaxSkipFrames)
  \/ \E c \in DOMAIN cams, n \in PresenceInputs : DetectionResult(c, n)
  \/ \E c \in DOMAIN cams, r \in MeshInputs : MeshResult(c, r)
  \/ Tick(500, MaxSkipTime)

SpecSkip == InitSkip /\ [][NextSkip]_vars

----------------------------------------------------------------------------
(* The FaceDetector specification: a FaceDetector, the init() and stop()   *)
(* calls made on it, the animation frames of its detection loop and        *)
(* enableSmoothing.  The variables of the Gazer stay as a constructor      *)
(* leaves them.                                                            *)

gazerVars ==
  <<config, g, now, cams, timers, emit, frames, quiet, opts, arg, obs>>

\* init(cameraDiv, options) up to its first await.
DetectorInit(o) ==
  /\ fd.initCalls < MaxInits
  /\ fd' = [fd EXCEPT !.config = MergeConfig(@, o),
                      !.inits = @ + 1,
                      !.initCalls = @ + 1,
                      !.halted = FALSE,
                      !.events = <<>>,
                      !.call = NoCall]
  /\ lastEv' = "init:await"
  /\ UNCHANGED gazerVars

\* init() after setupCamera resolved: the 'initialized' event, then
\* startDetection() with its first pass.
DetectorInitResume(hasLandmarker, in) ==
  /\ fd.inits > 0
  /\ fd.passes < MaxPasses
  /\ fd' = startDetection(
             [fd EXCEPT !.inits = @ - 1,
                        !.faceLandmarker = hasLandmarker,
                        !.camera = TRUE,
                        !.isInitialized = TRUE,
                        !.events = <<"initialized">>,
                        !.call = NoCall],
             in)
  /\ lastEv' = "init:done"
  /\ UNCHANGED gazerVars

\* init() after an await rejected: the catch block.
DetectorInitFail ==
  /\ fd.inits > 0
  /\ fd' = [fd EXCEPT !.inits = @ - 1, !.events = <<"error">>,
                      !.call = NoCall]
  /\ lastEv' = "init:failed"
  /\ UNCHANGED gazerVars

\* The browser runs the pending animation frame callback id.
DetectorFrame(id, in) ==
  /\ id \in fd.raf
  /\ fd.passes < MaxPasses
  /\ fd' = detect([fd EXCEPT !.raf = @ \ {id}, !.events = <<>>,
                             !.call = NoCall],
                  in)
  /\ lastEv' = "frame"
  /\ UNCHANGED gazerVars

\* stop() called by the application, outside a detection pass.
DetectorStop ==
  /\ fd' = FdStop([fd EXCEPT !.events = <<>>, !.call = NoCall])
  /\ lastEv' = "stop"
  /\ UNCHANGED gazerVars

DetectorEnableSmoothing(enabled) ==
  /\ fd' = enableSmoothing([fd EXCEPT !.events = <<>>, !.call = NoCall],
                           enabled)
  /\ lastEv' = "enableSmoothing"
  /\ UNCHANGED gazerVars

\* The 478 landmarks of a face, of which analyzeFacePose reads these: eye
\* corners 200 apart at height 400, forehead at 300, chin at 700, and the
\* nose tip at (nx, ny).
PoseFace(nx, ny) ==
  [noseTip |-> [x |-> nx, y |-> ny],
   leftEyeCorner |-> [x |-> 400, y |-> 400],
   rightEyeCorner |-> [x |-> 600, y |-> 400],
   foreheadCenter |-> [x |-> 500, y |-> 300],
   chinBottom |-> [x |-> 500, y |-> 700]]

\* What the landmarker returns: no result (it threw), a result without a
\* face, a face looking straight, one looking right, one looking down.
LandmarkInputs ==
  { NoLandmarks,
    [given |-> TRUE, faces |-> 0, face |-> NoLandmarks.face],
    [given |-> TRUE, faces |-> 1, face |-> PoseFace(500, 420)],
    [given |-> TRUE, faces |-> 1, face |-> PoseFace(560, 420)],
    [given |-> TRUE, faces |-> 1, face |-> PoseFace(500, 480)] }

\* The events whose listener calls stop(): none, 'lookingAway',
\* 'detection'.
StopListeners == {{}, {"lookingAway"}, {"detection"}}

\* The frames of the loop: the camera not ready, or a frame with its face
\* count, the landmarks asked for when that count is 1, and the listeners.
FrameInputs ==
  { in \in [ready : BOOLEAN, count : 0..MaxPeople,
            landmarks : LandmarkInputs, stopOn : StopListeners] :
      /\ in.count # 1 => in.landmarks = NoLandmarks
      /\ ~in.ready => (in.count = 0 /\ in.stopOn = {}) }

\* The options init() is given: none, or a smoothing window of 2 frames.
DetectorOptions ==
  { [has |-> {}, val |-> FdDefaultConfig],
    [has |-> {"smoothingFrames"},
     val |-> [FdDefaultConfig EXCEPT !.smoothingFrames = 2]] }

InitDetector ==
  /\ opts = Options({}, DefaultConfig)
  /\ config = Construct(opts)
  /\ g = InitialState(FALSE, Epoch)
  /\ now = Epoch
  /\ cams = <<>>
  /\ timers = {}
  /\ emit = {}
  /\ frames = 0
  /\ quiet = FALSE
  /\ arg = <<>>
  /\ obs = NoHist
  /\ lastEv = "new"
  /\ fd = NewDetector

NextDetector ==
  \/ \E o \in DetectorOptions : DetectorInit(o)
  \/ \E l \in BOOLEAN, in \in FrameInputs : DetectorInitResume(l, in)
  \/ DetectorInitFail
  \/ \E id \in fd.raf, in \in FrameInputs : DetectorFrame(id, in)
  \/ DetectorStop
  \/ \E b \in BOOLEAN : DetectorEnableSmoothing(b)

SpecDetector == InitDetector /\ [][NextDetector]_vars

----------------------------------------------------------------------------
(* The overlap specification: an instance with the default options, the    *)
(* start() calls made on it and the frames its cameras deliver. Each       *)
(* camera waits for the promise of one onFrame call before it makes the    *)
(* next; two cameras do not wait for each other.                           *)

InitOverlap ==
  /\ opts = Options({}, DefaultConfig)
  /\ config = Construct(opts)
  /\ g = InitialState(TRUE, Epoch)
  /\ now = Epoch
  /\ cams = <<>>
  /\ timers = {}
  /\ emit = {}
  /\ frames = 0
  /\ quiet = FALSE
  /\ arg = <<>>
  /\ obs = NoHist
  /\ lastEv = "new"
  /\ fd = NewDetector

NextOverlap ==
  \/ Start(MaxOverlapStarts)
  \/ \E c \in DOMAIN cams : StartResume(c)
  \/ \E c \in DOMAIN cams : OnFrame(c, MaxOverlapFrames)
  \/ \E c \in DOMAIN cams, n \in PresenceInputs : DetectionResult(c, n)
  \/ \E c \in DOMAIN cams, r \in MeshInputs : MeshResult(c, r)
  \/ Tick(500, MaxOverlapTime)

SpecOverlap == InitOverlap /\ [][NextOverlap]_vars

----------------------------------------------------------------------------
(* The no-landmarks specification: an instance with the default options    *)
(* and the landmark results, with and without a face, its callback is      *)
(* handed as time passes.                                                  *)

InitUnknown ==
  /\ opts = Options({}, DefaultConfig)
  /\ config = Construct(opts)
  /\ g = InitialState(TRUE, Epoch)
  /\ now = Epoch
  /\ cams = <<>>
  /\ timers = {}
  /\ emit = {}
  /\ frames = 0
  /\ quiet = FALSE
  /\ arg = <<>>
  /\ obs = EmptyHist
  /\ lastEv = "new"
  /\ fd = NewDetector

NextUnknown ==
  \/ \E r \in MeshInputs : OnResults(r, MaxUnknownResults)
  \/ Tick(1000, MaxUnknownTime)

SpecUnknown == InitUnknown /\ [][NextUnknown]_vars

----------------------------------------------------------------------------
(* The timer specification: an instance with or without a rollup           *)
(* consumer, the start(), stop() and destroy() calls made on it, and the   *)
(* two setters of the rollup configuration.                                *)

\* The arguments of setTrackingDataInterval: 0, 2 and a value parseInt
\* cannot read.
IntervalInputs == {0, 2000, NaN}

NextTimer ==
  \/ Start(MaxTimerStarts)
  \/ \E c \in DOMAIN cams : StartResume(c)
  \/ Stop
  \/ \E c \in DOMAIN cams : StopResume(c)
  \/ \E s \in IntervalInputs : SetTrackingDataInterval(s)
  \/ \E f \in BOOLEAN : SetTrackingDataCallback(f)
  \/ Destroy
  \/ \E id \in timers : TimerTick(id)

SpecTimer == Init /\ [][NextTimer]_vars

----------------------------------------------------------------------------
(* The rollup specification: an instance with or without a rollup          *)
(* consumer, started, the results its callbacks are handed, the rollup     *)
(* timer and a caller that forces a rollup.                                *)

InitRollup ==
  /\ opts \in LifeOptions
  /\ config = Construct(opts)
  /\ g = InitialState(TRUE, Epoch)
  /\ now = Epoch
  /\ cams = <<>>
  /\ timers = {}
  /\ emit = {}
  /\ frames = 0
  /\ quiet = FALSE
  /\ arg = <<>>
  /\ obs = BriefHist
  /\ lastEv = "new"
  /\ fd = NewDetector

NextRollup ==
  \/ Start(MaxStarts)
  \/ \E c \in DOMAIN cams : StartResume(c)
  \/ \E n \in PresenceInputs : OnDetections(n, MaxRollupDetections)
  \/ \E r \in MeshInputs : OnResults(r, MaxRollupResults)
  \/ \E id \in timers : TimerTick(id)
  \/ ForcePostTrackingData
  \/ Tick(1000, MaxRollupTime)

SpecRollup == InitRollup /\ [][NextRollup]_vars

----------------------------------------------------------------------------
(* The failure specification: an instance with or without an error         *)
(* consumer, whose models loaded or failed to load, and the sessions of    *)
(* the restart specification, in which camera.start() can fail.            *)

FailureOptions ==
  { Options({"onPostTrackingData", "postTrackingDataInterval"} \cup e,
            [DefaultConfig EXCEPT !.onPostTrackingData = TRUE,
                                  !.postTrackingDataInterval = 1,
                                  !.onError = TRUE]) :
      e \in {{}, {"onError"}} }

InitFailure ==
  /\ opts \in FailureOptions
  /\ config = Construct(opts)
  /\ \E loaded \in BOOLEAN :
       /\ g = InitialState(loaded, Epoch)
       /\ emit = IF ~loaded /\ config.onError THEN {"onError"} ELSE {}
  /\ now = Epoch
  /\ cams = <<>>
  /\ timers = {}
  /\ frames = 0
  /\ quiet = FALSE
  /\ arg = <<>>
  /\ obs = NoHist
  /\ lastEv = "new"
  /\ fd = NewDetector

SpecFailure == InitFailure /\ [][NextRestart]_vars

----------------------------------------------------------------------------
(* The idle specification: an instance constructed with pauseOnIdle on or  *)
(* off, the results its callbacks are handed, a caller that switches       *)
(* pauseOnIdle and reads the statistics, and the clock.                    *)

IdleOptions ==
  { Options({}, DefaultConfig),
    Options({"pauseOnIdle"}, [DefaultConfig EXCEPT !.pauseOnIdle = FALSE]) }

InitIdle ==
  /\ opts \in IdleOptions
  /\ config = Construct(opts)
  /\ g = InitialState(TRUE, Epoch)
  /\ now = Epoch
  /\ cams = <<>>
  /\ timers = {}
  /\ emit = {}
  /\ frames = 0
  /\ quiet = FALSE
  /\ arg = <<>>
  /\ obs = BriefHist
  /\ lastEv = "new"
  /\ fd = NewDetector

NextIdle ==
  \/ \E n \in PresenceInputs : OnDetections(n, MaxIdleDetections)
  \/ \E r \in MeshInputs : OnResults(r, MaxIdleResults)
  \/ \E b \in BOOLEAN : SetPauseOnIdle(b)
  \/ GetStats
  \/ Tick(2000, MaxIdleClock)

SpecIdle == InitIdle /\ [][NextIdle]_vars

----------------------------------------------------------------------------
(* Properties of the session life cycle.                                   *)

\* A step in which camera.start() resolved and start() ran to its end.
StartCompletes ==
  \E c \in DOMAIN cams : cams[c].starting /\ ~cams'[c].starting /\ cams'[c].live

\* A step in which a model delivered the result of a pending send.
ResultDelivered ==
  \E c \in DOMAIN cams : cams[c].frame # "none" /\ cams'[c].frame # cams[c].frame

\* What getStats() returns in the current state.
Snapshot == getStats(St, now).ret

\* The engine as stop() leaves it.
StoppedClean(gg) ==
  /\ ~gg.isRunning
  /\ gg.trackingDataTimer = 0
  /\ gg.camera = 0
  /\ gg.awayStartTime = NoTime /\ gg.totalAwayTime = 0
  /\ gg.distractedStartTime = NoTime /\ gg.totalDistractedTime = 0
  /\ gg.faceCount = 0 /\ gg.faceCountChanges = 0
  /\ gg.frameCounter = 0 /\ gg.framesSkipped = 0 /\ gg.canvasUpdates = 0
  /\ gg.lastFaceCount = NoFaceCount
  /\ gg.lastGazeState = Null /\ gg.gazeHistory = <<>>
  /\ ~gg.isIdle

\* C1: start() on an instance whose models are not loaded is rejected and
\* changes nothing (isRunning stays false, no camera is created, no rollup
\* timer is started); on an instance whose models are loaded, start() that
\* runs to its end sets isRunning.
C1_StartNeedsReadiness ==
  [][/\ ~g.isModelLoaded =>
          ~g'.isRunning /\ g'.camera = 0 /\ cams' = <<>> /\ timers' = {}
     /\ lastEv' = "start:rejected" =>
          ~g.isModelLoaded /\ UNCHANGED <<config, g, cams, timers>>
     /\ StartCompletes => g.isModelLoaded /\ g'.isRunning]_vars

C1_Witness == lastEv = "start:rejected" /\ ~g.isModelLoaded /\ now > Epoch

\* C2: right after a stop() that returned is followed by a start() that ran
\* to its end, every counter getStats() reports is zero, gazeState is reset,
\* isIdle is false and both accumulator intervals are closed.
C2_RestartIsClean ==
  lastEv = "restart:done" =>
    /\ Snapshot.faceCount = 0 /\ Snapshot.faceCountChanges = 0
    /\ Snapshot.awayTime = 0 /\ Snapshot.distractedTime = 0
    /\ Snapshot.processingFps = 0 /\ Snapshot.framesSkipped = 0
    /\ Snapshot.canvasUpdates = 0
    /\ Snapshot.gazeState = Null /\ ~Snapshot.isIdle
    /\ g.awayStartTime = NoTime /\ g.distractedStartTime = NoTime

\* C3: once a stop() has returned and start() has not been called since,
\* isRunning is false and no rollup timer is live.
C3_StopHalts == quiet => ~g.isRunning /\ timers = {}

\* C4: a detection or landmark result delivered while isRunning is false
\* changes nothing of the instance but framesSkipped, which it increments,
\* and fires no callback.
C4_NotRunningNoOp ==
  [][ResultDelivered /\ ~g.isRunning =>
       g' = [g EXCEPT !.framesSkipped = @ + 1] /\ emit' = {}]_vars

C6_GetStatsReadOnly == getStats(St, now).st = St

C6_Witness ==
  /\ g.isRunning
  /\ g.awayStartTime # NoTime /\ now > g.awayStartTime
  /\ Snapshot.awayTime > g.totalAwayTime

----------------------------------------------------------------------------
(* Properties of the configuration.                                        *)

\* The documented range of a numeric option: thresholds in thousandths.
Range(k) ==
  CASE k = "targetFps" -> [lo |-> 5, hi |-> 30]
    [] k = "frameSkip" -> [lo |-> 1, hi |-> 5]
    [] k = "horizontalThreshold" -> [lo |-> 100, hi |-> 1000]
    [] k = "verticalThreshold" -> [lo |-> 50, hi |-> 500]
    [] k = "gazeHistorySize" -> [lo |-> 2, hi |-> 10]

\* The value read, in the unit the option is stored in.
Supplied(p) == IF p.key \in IntKeys THEN p.num \div 1000 ELSE p.num

\* C7: after updateSettings, every recognized numeric option the settings
\* object named is stored inside its documented range, and when the object
\* named that option alone with a number outside the range, the nearest bound
\* of the range is what is stored.
C7_UpdateSettingsClamps ==
  lastEv = "updateSettings" =>
    \A i \in DOMAIN arg :
      arg[i].key \in IntKeys \cup FloatKeys =>
        LET r == Range(arg[i].key)
            v == config[arg[i].key]
        IN /\ r.lo <= v /\ v <= r.hi
           /\ (Len(arg) = 1 /\ ~IsNaN(arg[i].num)) =>
                /\ Supplied(arg[i]) > r.hi => v = r.hi
                /\ Supplied(arg[i]) < r.lo => v = r.lo

\* C8: a frame is accepted only when the time since the last processed frame
\* is at least 1000/targetFps ms, for the targetFps that is configured when
\* the frame arrives.
C8_RateChangeImmediate ==
  [][\A c \in DOMAIN cams :
       (/\ cams[c].frame = "none"
        /\ cams'[c].frame = "detection"
        /\ cams[c].lastProcessTime # 0) =>
         (now - cams[c].lastProcessTime) * config.targetFps >= 1000]_vars

\* C9: the configuration of an instance constructed with a named preset
\* holds, for every field of the preset's group, the value the options
\* supplied for it, or the preset's value when they supplied none.
C9_CtorPresetThenExplicit ==
  lastEv = "new" =>
    /\ ("performanceMode" \in opts.has
          /\ opts.val.performanceMode \in PerformanceModes) =>
         \A f \in PerformanceFields :
           config[f] = IF f \in opts.has THEN opts.val[f]
                       ELSE performancePresets[opts.val.performanceMode][f]
    /\ ("sensitivityMode" \in opts.has
          /\ opts.val.sensitivityMode \in SensitivityModes) =>
         \A f \in SensitivityFields :
           config[f] = IF f \in opts.has THEN opts.val[f]
                       ELSE sensitivityPresets[opts.val.sensitivityMode][f]

\* C10: after an updateSettings call whose settings object names a preset
\* and a number or a boolean for a field of that preset's group, in either
\* order, the field holds what its own setter stores for the value supplied.
C10_ExplicitBeatsPreset ==
  lastEv = "updateSettings" =>
    \A i, j \in DOMAIN arg :
      (/\ ~IsNaN(arg[j].num)
       /\ \/ /\ arg[i].key = "performanceMode"
             /\ arg[i].str \in PerformanceModes
             /\ arg[j].key \in PerformanceFields
          \/ /\ arg[i].key = "sensitivityMode"
             /\ arg[i].str \in SensitivityModes
             /\ arg[j].key \in SensitivityFields) =>
        config[arg[j].key] = applySetting(St, arg[j]).config[arg[j].key]

----------------------------------------------------------------------------
(* Properties of presence.                                                 *)

\* The bucket of a face count: none, single, multiple.
Bucket(n) == IF n = 0 THEN "none" ELSE IF n = 1 THEN "single" ELSE "multiple"

\* The places of a sequence of face counts whose bucket differs from the one
\* before; the first always does.
BucketChanges(counts) ==
  Cardinality({i \in 1..Len(counts) :
                 i = 1 \/ Bucket(counts[i]) # Bucket(counts[i - 1])})

\* C11: after any sequence of processed detection frames, the number of
\* onFaceDetected calls, and faceCountChanges, equal the number of places
\* where the face count changed bucket.
C11_EventsAreBucketChanges ==
  /\ obs.faceEvents = BucketChanges(obs.faces)
  /\ g.faceCountChanges = BucketChanges(obs.faces)

\* C12: the first detection result delivered in a session calls
\* onFaceDetected, whatever its face count and whenever it arrives.
C12_FirstResultFires ==
  [][(obs.dets = 0 /\ obs'.dets = 1) => "onFaceDetected" \in emit']_vars

----------------------------------------------------------------------------
(* Properties of gaze reporting and smoothing.                             *)

\* A sequence without the entries that repeat the entry before them.
RECURSIVE Dedup(_, _)
Dedup(seq, last) ==
  IF seq = <<>> THEN <<>>
  ELSE IF Head(seq) = last THEN Dedup(Tail(seq), last)
  ELSE <<Head(seq)>> \o Dedup(Tail(seq), Head(seq))

\* C13: the states onGazeChange was called with are the states handed to
\* updateGazeStatus, less every one that repeats the state reported before
\* it: an event for each change of the resolved state, none otherwise, and
\* no two consecutive events with the same state.
C13_GazeEventsAreChanges ==
  /\ obs.gaze = Dedup(obs.reported, Null)
  /\ \A i \in 1..(Len(obs.gaze) - 1) : obs.gaze[i] # obs.gaze[i + 1]

C13_Witness ==
  /\ Len(obs.raw) = 3 /\ obs.raw[3] # obs.raw[2]
  /\ Len(obs.reported) = 3 /\ obs.reported[3] = obs.reported[2]
  /\ Len(obs.gaze) = 1

\* The last entry of a sequence that has one.
Last(seq) == seq[Len(seq)]

\* The last min(n, Len(seq)) entries of a sequence.
LastN(seq, n) ==
  IF Len(seq) <= n THEN seq ELSE SubSeq(seq, Len(seq) - n + 1, Len(seq))

\* The places of a sequence whose entry differs from the one before.
Changes(seq) == Cardinality({i \in 2..Len(seq) : seq[i] # seq[i - 1]})

\* C14: when the smoothing window holds as many 'screen' as 'away' entries,
\* the state resolved from it is the one of its first entry.
C14_TieGoesToFirst ==
  (/\ obs.raw # <<>>
   /\ Count(g.gazeHistory, "screen") = Count(g.gazeHistory, "away")) =>
     Last(obs.resolved) = Head(g.gazeHistory)

\* C15: after each push, when one direction holds a strict majority of the
\* last min(N, samples pushed) raw samples, N being gazeHistorySize, the
\* resolved state is that direction.
C15_MajorityResolves ==
  \A k \in 1..Len(obs.raw) :
    LET window == LastN(SubSeq(obs.raw, 1, k), config.gazeHistorySize) IN
    \A v \in {"screen", "away"} :
      2 * Count(window, v) > Len(window) => obs.resolved[k] = v

C15_Witness ==
  /\ config.gazeHistorySize = 3
  /\ obs.raw = <<"screen", "away", "screen", "away", "screen">>
  /\ SubSeq(obs.resolved, 3, 5) = <<"screen", "away", "screen">>

\* C16 as stated: with a window of two entries or more, when the raw
\* direction changed at least once, the resolved state changed strictly
\* fewer times than the raw direction.
C16_StrictlyFewerChanges ==
  (config.gazeHistorySize >= 2 /\ Changes(obs.raw) >= 1) =>
    Changes(obs.resolved) < Changes(obs.raw)

\* C16, amended: the resolved state never changes more often than the raw
\* direction does.
C16_NoMoreChanges == Changes(obs.resolved) <= Changes(obs.raw)

C16_Witness ==
  /\ Changes(obs.raw) = 2
  /\ Changes(obs.resolved) = 0
  /\ Len(obs.raw) = 5

----------------------------------------------------------------------------
(* Properties of the smoothing history and of unusable landmark sets.      *)

\* C17: the smoothing history never holds more entries than the configured
\* window, whatever call last changed the window.
C17_HistoryWithinWindow == Len(g.gazeHistory) <= config.gazeHistorySize

\* A detection result is delivered and reaches updateStats.
DetectionProcessed == Len(obs'.faces) = Len(obs.faces) + 1

\* C18: after every processed detection result with zero faces, the
\* smoothing history is empty.
C18_AbsenceClearsHistory ==
  [][(DetectionProcessed /\ Last(obs'.faces) = 0) => g'.gazeHistory = <<>>]_vars

\* A landmark result is delivered while the callback neither skips the frame
\* nor is paused by idle mode.
MeshProcessed ==
  /\ obs'.meshes = obs.meshes + 1
  /\ ~RemNotZero(g.frameCounter, config.frameSkip)
  /\ ~(g.isIdle /\ config.pauseOnIdle)

\* A landmark set of fewer than 468 entries, or without one of its anchors.
Unusable(lm) == lm.length < 468 \/ Anchors \ lm.has # {}

\* C19: a processed landmark result with a face whose landmark set is
\* unusable raises no error and reports 'unknown', and a processed result
\* reports 'unknown' only when it has no face or an unusable landmark set.
C19_UnusableReportsUnknown ==
  [][MeshProcessed =>
       /\ (obs'.mesh.faces > 0 /\ Unusable(obs'.mesh.lm)) =>
            /\ lastEv' = "mesh"
            /\ Len(obs'.reported) = Len(obs.reported) + 1
            /\ Last(obs'.reported) = "unknown"
       /\ (/\ Len(obs'.reported) = Len(obs.reported) + 1
           /\ Last(obs'.reported) = "unknown") =>
            (obs'.mesh.faces = 0 \/ Unusable(obs'.mesh.lm))]_vars

\* C20: no processed landmark result of at least 468 entries with an anchor
\* missing makes calculateGazeDirection throw: the callback returns and the
\* frame ends as every other frame does.
C20_MissingAnchorNeverThrows ==
  [][(/\ MeshProcessed
      /\ obs'.mesh.faces > 0
      /\ obs'.mesh.lm.length >= 468
      /\ Anchors \ obs'.mesh.lm.has # {}) =>
       /\ calculateGazeDirection(obs'.mesh.lm, config).kind = "null"
       /\ lastEv' = "mesh"]_vars

----------------------------------------------------------------------------
(* Properties of the direction classifier.                                 *)

\* Four times faceCenter.x, twice eyeDistance and four times faceCenter.y
\* of a landmark set, in thousandths.
FaceCenterX4(lm) ==
  lm.pt.leftEyeOuter.x + lm.pt.leftEyeInner.x
    + lm.pt.rightEyeOuter.x + lm.pt.rightEyeInner.x

EyeDistance2(lm) ==
  Abs((lm.pt.rightEyeOuter.x + lm.pt.rightEyeInner.x)
        - (lm.pt.leftEyeOuter.x + lm.pt.leftEyeInner.x))

FaceCenterY4(lm) ==
  lm.pt.leftEyeTop.y + lm.pt.leftEyeBottom.y
    + lm.pt.rightEyeTop.y + lm.pt.rightEyeBottom.y

\* |horizontalOffset| > threshold, horizontalOffset being
\* (faceCenter.x - 0.5) / eyeDistance: +-Infinity, which exceeds every
\* threshold, when eyeDistance is 0 and faceCenter.x is not 0.5, and NaN,
\* which exceeds none, when both are.
HorizontalExceeds(lm, threshold) ==
  IF EyeDistance2(lm) = 0 THEN FaceCenterX4(lm) # 2000
  ELSE 2 * Abs(FaceCenterX4(lm) - 2000) * 1000
         > threshold * 4 * EyeDistance2(lm)

\* |verticalOffset| > threshold, verticalOffset being faceCenter.y - 0.4.
VerticalExceeds(lm, threshold) ==
  Abs(FaceCenterY4(lm) - 1600) > 4 * threshold

\* C21: the direction computed from the last landmark set delivered, every
\* anchor of which is present, is 'away' when the horizontal or the
\* vertical offset exceeds its threshold and 'screen' otherwise.
C21_DirectionFromOffsets ==
  (obs.meshes > 0 /\ Anchors \subseteq obs.mesh.lm.has) =>
    /\ Len(obs.raw) = obs.meshes
    /\ Last(obs.raw) =
         IF \/ HorizontalExceeds(obs.mesh.lm, config.horizontalThreshold)
            \/ VerticalExceeds(obs.mesh.lm, config.verticalThreshold)
         THEN "away" ELSE "screen"

\* A vertical offset exactly at the medium threshold (0.55 - 0.4 = 0.15),
\* with the face centred, gave 'screen' after a sample that gave 'away'.
C21_Witness ==
  /\ config.sensitivityMode = "medium"
  /\ obs.meshes = 2
  /\ obs.raw = <<"away", "screen">>
  /\ FaceCenterY4(obs.mesh.lm) = 2200
  /\ FaceCenterX4(obs.mesh.lm) = 2000

----------------------------------------------------------------------------
(* Properties of the away accumulator and of idle mode.                    *)

\* The cumulative away time at t, in ms: the total plus the open part.
AwayTotal(gg, t) ==
  gg.totalAwayTime
    + (IF gg.awayStartTime # NoTime THEN t - gg.awayStartTime ELSE 0)

\* A step that delivers a detection result, one that delivers a landmark
\* result, and one whose detection result, of no face, reaches updateStats.
DetectionDelivered == obs'.dets = obs.dets + 1

MeshDelivered == obs'.meshes = obs.meshes + 1

ZeroFaceProcessed == obs'.processed = obs.processed + 1 /\ g'.faceCount = 0

\* C22: over every step of a session the cumulative away time, and the
\* awayTime getStats reports, do not decrease; the cumulative time grows
\* only when the away interval was open; closing the interval adds exactly
\* the time since it was opened to the total; and while the interval is
\* closed and no result without a face is processed, it stays closed and the
\* total stays as it is.
C22_AwayTimeAccrues ==
  [][/\ AwayTotal(g', now') >= AwayTotal(g, now)
     /\ Snapshot'.awayTime >= Snapshot.awayTime
     /\ AwayTotal(g', now') > AwayTotal(g, now) => g.awayStartTime # NoTime
     /\ (g.awayStartTime # NoTime /\ g'.awayStartTime = NoTime) =>
          g'.totalAwayTime = g.totalAwayTime + (now' - g.awayStartTime)
     /\ (g.awayStartTime = NoTime /\ ~ZeroFaceProcessed) =>
          (g'.awayStartTime = NoTime /\ g'.totalAwayTime = g.totalAwayTime)
    ]_vars

\* An away interval of four seconds was closed by a result with a face.
C22_Witness ==
  /\ lastEv = "detection"
  /\ g.faceCount = 1
  /\ g.awayStartTime = NoTime
  /\ g.totalAwayTime = 4000
  /\ Snapshot.awayTime = 4

\* C25: isIdle turns true only on a detection result without a face, when
\* no detection result of the preceding idleTimeout ms had a face and the
\* instance has existed for idleTimeout ms at least.
C25_IdleOnlyAfterAbsence ==
  [][(~g.isIdle /\ g'.isIdle) =>
       /\ DetectionDelivered
       /\ g'.currentFaces = 0
       /\ obs.lastFaceAt # NoTime => now - obs.lastFaceAt >= config.idleTimeout
       /\ now - Epoch >= config.idleTimeout]_vars

\* C26: with pauseOnIdle on, a detection result without a face that comes
\* more than idleTimeout after the first of an unbroken run of such results
\* enters idle mode; in idle mode a landmark result or a detection result
\* without a face fires no callback and changes neither presence, gaze nor
\* the accumulators; and a detection result with a face ends idle mode and
\* reaches updateStats, which leaves the away interval closed.
C26_IdleSuppressesUntilFace ==
  [][config.pauseOnIdle =>
       /\ (/\ DetectionDelivered /\ g'.currentFaces = 0 /\ ~g.isIdle
           /\ obs.zeroSince # NoTime
           /\ now - obs.zeroSince > config.idleTimeout) => g'.isIdle
       /\ (/\ g.isIdle
           /\ MeshDelivered \/ (DetectionDelivered /\ g'.currentFaces = 0)) =>
            /\ g'.isIdle
            /\ emit' = {}
            /\ obs'.processed = obs.processed
            /\ \A f \in {"faceCount", "lastFaceCount", "faceCountChanges",
                          "lastGazeState", "gazeHistory", "awayStartTime",
                          "totalAwayTime", "distractedStartTime",
                          "totalDistractedTime"} : g'[f] = g[f]
       /\ (g.isIdle /\ DetectionDelivered /\ g'.currentFaces > 0) =>
            /\ ~g'.isIdle
            /\ obs'.processed = obs.processed + 1
            /\ g'.faceCount = g'.currentFaces
            /\ g'.awayStartTime = NoTime]_vars

\* Of three detection results one was suppressed by idle mode, and the
\* last, with a face, ended idle mode and closed an away interval of four
\* seconds.
C26_Witness ==
  /\ config.pauseOnIdle
  /\ lastEv = "detection"
  /\ obs.dets = 3 /\ obs.processed = 2
  /\ ~g.isIdle /\ g.faceCount = 1
  /\ g.totalAwayTime = 4000

\* C27: whenever isIdle is true the away interval is open.
C27_IdleKeepsAwayOpen == g.isIdle => g.awayStartTime # NoTime

\* C28: with pauseOnIdle off, no detection result turns isIdle true, and
\* every detection result reaches updateStats.
C28_NoIdleWhenOff ==
  [][(~config.pauseOnIdle /\ DetectionDelivered) =>
       /\ g'.isIdle => g.isIdle
       /\ obs'.processed = obs.processed + 1
       /\ g'.faceCount = g'.currentFaces
       /\ "onStatsUpdate" \in emit']_vars

\* With pauseOnIdle off from construction, a result without a face came
\* four seconds after construction and opened the away interval.
C28_Witness ==
  /\ "pauseOnIdle" \in opts.has /\ ~config.pauseOnIdle
  /\ lastEv = "detection"
  /\ now = Epoch + 4000
  /\ obs.dets = 1
  /\ ~g.isIdle /\ g.faceCount = 0 /\ g.awayStartTime = now

----------------------------------------------------------------------------
(* Properties of the distracted accumulator.                               *)

\* No frame is being processed: every camera's onFrame has returned.
FrameComplete == \A c \in DOMAIN cams : cams[c].frame = "none"

\* C23: between frames, as long as every landmark result had a face exactly
\* when the detection result of its frame had, the distracted interval is
\* open only while the face count is 1.
C23_DistractedOnlyWithOneFace ==
  (obs.agree /\ FrameComplete /\ g.distractedStartTime # NoTime) =>
    g.faceCount = 1

\* C24: between frames, as long as every landmark result had a face exactly
\* when the detection result of its frame had, the away interval and the
\* distracted interval are not open together.
C24_IntervalsExclusive ==
  (obs.agree /\ FrameComplete) =>
    ~(g.awayStartTime # NoTime /\ g.distractedStartTime # NoTime)

----------------------------------------------------------------------------
(* Properties of the rollup and of upstream failures.                      *)

\* The fields of the instance a rollup has to leave alone.
KeptByRollup ==
  {"totalAwayTime", "totalDistractedTime", "awayStartTime",
   "distractedStartTime", "faceCount", "lastFaceCount", "lastGazeState",
   "gazeHistory", "framesSkipped", "canvasUpdates", "processingFps",
   "isRunning", "isIdle"}

\* The instance a rollup at t leaves: one record delivered, the interval
\* counter at 0, and the totals, the open intervals, the face count, the
\* gaze state and the frame counters as they were.
ResetsOnlyInterval(st, t) ==
  /\ st.emit = {"onPostTrackingData"}
  /\ st.g.faceCountChanges = 0
  /\ \A f \in KeptByRollup : st.g[f] = g[f]
  /\ st.config = config
  /\ st.timers = timers

\* C29: in every state of an instance with a rollup consumer, a rollup, by
\* the timer (postTrackingData) or forced (forcePostTrackingData), delivers
\* one record and resets faceCountChanges only.
C29_RollupResetsOnlyInterval ==
  config.onPostTrackingData =>
    /\ ResetsOnlyInterval(postTrackingData(St, now), now)
    /\ ResetsOnlyInterval(forcePostTrackingData(St, now), now)

\* A timer tick has reset the counter of a session in which a face count
\* was reported and the away interval is open.
C29_Witness ==
  /\ lastEv = "timer"
  /\ emit = {"onPostTrackingData"}
  /\ g.faceCountChanges = 0
  /\ g.lastFaceCount = 0
  /\ g.awayStartTime # NoTime /\ now > g.awayStartTime

\* A step in which camera.start() rejected and start() ran its catch block.
StartFails ==
  /\ lastEv' = "start:failed"
  /\ \E c \in DOMAIN cams : cams[c].starting /\ ~cams'[c].starting

\* C30: with an error consumer, a constructor whose models failed to load
\* has called onError and nothing else, and a start() whose camera failed
\* to start calls onError and nothing else, changes no field of the
\* instance, and leaves isRunning false and no rollup timer live.
C30_FailureSurfacedOnce ==
  /\ []((config.onError /\ lastEv = "new" /\ ~g.isModelLoaded) =>
          emit = {"onError"})
  /\ [][(config.onError /\ StartFails) =>
          /\ emit' = {"onError"}
          /\ g' = g
          /\ ~g'.isRunning
          /\ timers' = {}]_vars

----------------------------------------------------------------------------
(* Properties of frame admission.                                          *)

\* The cameras whose onFrame call awaits a send.
Pending == {c \in DOMAIN cams : cams[c].frame # "none"}

\* C31: frames are processed one at a time: no frame is sent to the models
\* while the sends of another frame are pending.
C31_OneFrameAtATime == Cardinality(Pending) <= 1

\* C32: with frameSkip = N, the landmark results of N - 1 of every N
\* consecutive frames are skipped and counted in framesSkipped: once a
\* multiple of N frames is complete, framesSkipped is that number of
\* frames times (N - 1) / N, and 0 when N = 1.
C32_OneOfEveryN ==
  (FrameComplete /\ obs.meshes % config.frameSkip = 0) =>
    g.framesSkipped * config.frameSkip = obs.meshes * (config.frameSkip - 1)

----------------------------------------------------------------------------
(* Properties of a landmark result without a face.                         *)

\* A step in which a landmark result without landmarks is handed over and
\* is neither skipped nor suppressed by idle mode.
NoFaceProcessed ==
  /\ obs'.meshes = obs.meshes + 1
  /\ obs'.mesh.faces = 0
  /\ ~RemNotZero(g.frameCounter, config.frameSkip)
  /\ ~(g.isIdle /\ config.pauseOnIdle)

\* C33: a processed landmark result without landmarks sets the gaze state
\* to 'unknown', reporting it when that is a change, leaves gazeHistory as
\* it was, and closes an open distracted interval, adding its length to
\* the distracted total.
C33_UnknownBypassesHistory ==
  [][NoFaceProcessed =>
       /\ g'.lastGazeState = "unknown"
       /\ emit' = IF g.lastGazeState # "unknown"
                  THEN {"onGazeChange"} ELSE {}
       /\ g'.gazeHistory = g.gazeHistory
       /\ g'.distractedStartTime = NoTime
       /\ g'.totalDistractedTime =
            g.totalDistractedTime +
              (IF g.distractedStartTime # NoTime
               THEN now - g.distractedStartTime ELSE 0)]_vars

\* A result without landmarks was processed with two samples in the
\* history and closed a distracted interval that had lasted a while.
C33_Witness ==
  /\ lastEv = "mesh"
  /\ obs.meshes = 3 /\ obs.mesh.faces = 0
  /\ g.lastGazeState = "unknown"
  /\ Len(g.gazeHistory) = 2
  /\ g.distractedStartTime = NoTime
  /\ g.totalDistractedTime > 0

----------------------------------------------------------------------------
(* Properties of the session's camera and rollup timer.                    *)

\* The cameras created by start() that are started and not stopped.
Live == {c \in DOMAIN cams : cams[c].live}

\* C34: at most one camera created by the engine is live, and none is once
\* a stop() has completed and no start() was called since.
C34_OneSession ==
  /\ Cardinality(Live) <= 1
  /\ quiet => Live = {}

\* C36: at most one rollup timer is live, a live timer belongs to a
\* running session, and it was started with a positive interval and a
\* consumer.
C36_TimerOwnedBySession ==
  /\ Cardinality(timers) <= 1
  /\ timers # {} => g.isRunning
  /\ timers # {} =>
       /\ Gt(config.postTrackingDataInterval, 0)
       /\ config.onPostTrackingData

\* C37: in a session, the faceCountChanges values delivered in rollup
\* records plus the current counter equal the number of face-count changes
\* detected, each of which was reported by onFaceDetected.
C37_ChangesConserved ==
  obs.posted + g.faceCountChanges = obs.faceEvents

\* A rollup delivered one change and another change was counted after it.
C37_Witness ==
  /\ obs.posted = 1
  /\ g.faceCountChanges = 1
  /\ lastEv = "detection"

----------------------------------------------------------------------------
(* Properties of the away interval and the face count.                     *)

\* A step whose detection result reaches updateStats.
DetectionReachesStats == obs'.processed = obs.processed + 1

\* C38: the away interval is open only while the face count is 0, and
\* right after a detection result that reaches updateStats it is open
\* exactly when that result had no face, with lastFaceCount equal to
\* faceCount.
C38_AwayOpenMeansAbsent ==
  /\ [](g.awayStartTime # NoTime => g.faceCount = 0)
  /\ [][DetectionReachesStats =>
          /\ (g'.awayStartTime # NoTime) <=> (obs'.zeroSince # NoTime)
          /\ g'.lastFaceCount = g'.faceCount]_vars

\* A second away interval was opened by a result without a face, after a
\* result with a face had closed the first.
C38_Witness ==
  /\ lastEv = "detection"
  /\ obs.processed = 3
  /\ obs.zeroSince = now
  /\ g.awayStartTime = now
  /\ g.totalAwayTime > 0
  /\ g.faceCount = 0

----------------------------------------------------------------------------
(* Properties of the FaceDetector.                                         *)

\* The events of a detection pass among those the last operation
\* dispatched, in order.
PassDispatched == SelectSeq(fd.events, LAMBDA e : e \in PassEvents)

\* The last operation ran stop(), itself or from a listener.
StopRan == \E i \in 1..Len(fd.events) : fd.events[i] = "stopped"

\* C35: after processDetections with no face or several faces the pose
\* history is empty and lastPoseState is null, and after
\* enableSmoothing(false) or stop() the pose history is empty.
C35_PoseStateReset ==
  /\ (fd.call.made /\ fd.call.count # 1) =>
       (fd.poseHistory = <<>> /\ fd.lastPoseState = NoPose)
  /\ (lastEv = "enableSmoothing" /\ ~fd.config.smoothing) =>
       fd.poseHistory = <<>>
  /\ StopRan => fd.poseHistory = <<>>

\* A frame with two faces emptied a pose history that held poses.
C35_Witness ==
  /\ fd.call.made /\ fd.call.count = 2 /\ fd.call.had > 0
  /\ fd.poseHistory = <<>> /\ fd.lastPoseState = NoPose

\* C39: once stop() has returned and until init() is called, no detection
\* pass is pending, and no event of a detection pass is dispatched after
\* the 'stopped' event of a stop() called by a listener.
C39_StopHalts ==
  /\ fd.halted => fd.raf = {}
  /\ \A i, j \in 1..Len(fd.events) :
       (i < j /\ fd.events[i] = "stopped") => fd.events[j] \notin PassEvents

\* The classification events processDetections may dispatch for a call.
ClassOf(call) ==
  IF call.count = 0 THEN {"noPerson"}
  ELSE IF call.count > 1 THEN {"multiplePeople"}
  ELSE IF call.landmarks THEN {"lookingAway", "lookingStraight"}
  ELSE {"singlePerson"}

====
